---- MODULE Spec2Model ----
(***************************************************************************)
(* compressible: is_compressible(content_type) parses the argument with   *)
(* the mime crate (0.3.16), takes the parsed value's essence and looks it  *)
(* up in a HashMap<&str, bool> built from a literal list of pairs.         *)
(*                                                                         *)
(* A string is a sequence of bytes (Rust's s.bytes()).  An ASCII byte is   *)
(* written as the one-character string of its character; the two bytes of  *)
(* the UTF-8 encoding of U+00E9 are written "0xC3" and "0xA9".             *)
(* Indices are 0-based as in the source: At(s, i) is s.as_bytes()[i].      *)
(***************************************************************************)
EXTENDS Integers, Sequences, FiniteSets, TLC

VARIABLES
    pc,               \* where the process is: "idle" (no call in progress) or a position inside is_compressible
    content_type,     \* the argument of the call in progress (lib.rs:23)
    compressible_map, \* the local HashMap of the call in progress (lib.rs:25)
    parsed,           \* the value of content_type.parse::<Mime>() (lib.rs:859)
    found,            \* the value of compressible_map.get(essence) (lib.rs:860)
    result,           \* the boolean the call evaluates to (lib.rs:861, 863, 866)
    calls,            \* observer: calls of is_compressible started so far in this process
    builds,           \* observer: HashMap constructions performed so far in this process
    lookups,          \* observer: HashMap::get calls performed by the call in progress
    history,          \* observer: <<argument, returned boolean>> of every completed call, in order
    threads,          \* the call frames of the threads that call is_compressible concurrently
    literal           \* the list of pairs handed to HashMap::from_iter when a construction is studied on its own

vars == <<pc, content_type, compressible_map, parsed, found, result, calls, builds, lookups, history,
          threads, literal>>

(***************************************************************************)
(* Bounds of the model.                                                    *)
(***************************************************************************)
MaxLen == 3       \* enumerated arguments have at most this many characters
MaxCalls == 3     \* calls of is_compressible made by one process
LongLen == 90     \* length of the "very long" argument (longer than any key)
NumThreads == 2   \* threads that call is_compressible concurrently
InsertSteps == 2  \* steps into which the interleaving splits one construction of the table
MaxList == 3      \* length of the lists handed to HashMap::from_iter on its own

(***************************************************************************)
(* Bytes and strings.                                                      *)
(***************************************************************************)
None == "None"

At(s, i) == s[i + 1]

Lower == <<"a","b","c","d","e","f","g","h","i","j","k","l","m",
           "n","o","p","q","r","s","t","u","v","w","x","y","z">>

Upper == <<"A","B","C","D","E","F","G","H","I","J","K","L","M",
           "N","O","P","Q","R","S","T","U","V","W","X","Y","Z">>

Digit == {"0","1","2","3","4","5","6","7","8","9"}

LeadByte == "0xC3"
ContinuationByte == "0xA9"
HTab == "\t"

\* u8::to_ascii_lowercase: 'A'..='Z' map to 'a'..='z', every other byte to itself.
byte_to_ascii_lowercase(c) ==
    IF \E i \in 1..26 : Upper[i] = c
    THEN Lower[CHOOSE i \in 1..26 : Upper[i] = c]
    ELSE c

\* u8::to_ascii_uppercase (used to derive arguments, not by the program).
byte_to_ascii_uppercase(c) ==
    IF \E i \in 1..26 : Lower[i] = c
    THEN Upper[CHOOSE i \in 1..26 : Lower[i] = c]
    ELSE c

\* str::to_ascii_lowercase
to_ascii_lowercase(s) == [i \in 1..Len(s) |-> byte_to_ascii_lowercase(s[i])]

to_ascii_uppercase(s) == [i \in 1..Len(s) |-> byte_to_ascii_uppercase(s[i])]

\* str::is_char_boundary(n): 0, len, or a byte that is not a UTF-8 continuation byte.
is_char_boundary(s, n) ==
    \/ n = 0
    \/ n = Len(s)
    \/ n > 0 /\ n < Len(s) /\ At(s, n) # ContinuationByte

\* &s[a..b] panics unless a <= b <= len and both ends are char boundaries.
slice_ok(s, a, b) ==
    /\ 0 <= a /\ a <= b /\ b <= Len(s)
    /\ is_char_boundary(s, a)
    /\ is_char_boundary(s, b)

slice(s, a, b) == SubSeq(s, a + 1, b)

(***************************************************************************)
(* The media-type parser the program calls: mime 0.3.16, Mime::from_str    *)
(* (mime::parse::parse) and Mime::essence_str.  A parse evaluates to       *)
(* Ok(mime), to Err(error) or, if a slice were out of range, to a panic.   *)
(***************************************************************************)
NoOption == <<>>
Some(x) == <<x>>

Ok(m) == [tag |-> "Ok", value |-> m, error |-> None]
Err(e) == [tag |-> "Err", value |-> None, error |-> e]
Panic == [tag |-> "Panic", value |-> None, error |-> None]

ParamSourceNone == [kind |-> "None", semicolon |-> -1]
ParamSourceUtf8(i) == [kind |-> "Utf8", semicolon |-> i]
ParamSourceCustom(i) == [kind |-> "Custom", semicolon |-> i]

Mime(source, slash, plus, params) ==
    [source |-> source, slash |-> slash, plus |-> plus, params |-> params]

Backtick == "0x60"

\* mime::parse::TOKEN_MAP: the tchar bytes of RFC 7230.
TokenPunctuation == {"!", "#", "$", "%", "&", "'", "*", "+", "-", ".", "^", "_", Backtick, "|", "~"}

\* A token test that takes letters, digits, "-" and "+" only.
is_token_alphanumeric(c) ==
    \/ \E i \in 1..26 : Lower[i] = c \/ Upper[i] = c
    \/ c \in Digit
    \/ c \in {"-", "+", "*"}

is_token(c) ==
    \/ \E i \in 1..26 : Lower[i] = c \/ Upper[i] = c
    \/ c \in Digit
    \/ c \in TokenPunctuation

\* mime::parse::is_restricted_quoted_char: c > 31 && c != 127.  Of the
\* bytes the model writes, only the horizontal tab is a control byte.
is_restricted_quoted_char(c) == c # HTab

CHARSET == <<"c","h","a","r","s","e","t">>
UTF_8 == <<"u","t","f","-","8">>
StarStarSource == <<"*", "/", "*">>
STAR_STAR == Mime(StarStarSource, 1, NoOption, ParamSourceNone)

\* Name == &str, for the case-insensitive names CHARSET and UTF_8.
name_eq(name, str) == to_ascii_lowercase(str) = name

\* lower_ascii_with_params: the part before the semicolon is lowercased; the
\* parameter section (lowercased names, charset value) is left as written
\* here, since the program reads the source only up to the semicolon.
lower_ascii_with_params(s, semi) ==
    to_ascii_lowercase(slice(s, 0, semi)) \o slice(s, semi, Len(s))

RECURSIVE params_loop(_, _, _, _, _)
RECURSIVE name_loop(_, _, _, _, _)
RECURSIVE value_loop(_, _, _, _, _, _, _, _)
RECURSIVE ws_loop(_, _, _, _, _, _)

\* The match on params that ends one round of the 'params loop.
push_param(s, it, start, semicolon, params, name, value) ==
    IF params.kind = "None"
    THEN IF semicolon + 2 = name[1]
         THEN IF ~slice_ok(s, name[1], name[2]) THEN Panic
              ELSE IF name_eq(CHARSET, slice(s, name[1], name[2]))
              THEN IF ~slice_ok(s, value[1], value[2]) THEN Panic
                   ELSE IF name_eq(UTF_8, slice(s, value[1], value[2]))
                   THEN params_loop(s, it, start, semicolon, ParamSourceUtf8(semicolon))
                   ELSE params_loop(s, it, start, semicolon, ParamSourceCustom(semicolon))
              ELSE params_loop(s, it, start, semicolon, ParamSourceCustom(semicolon))
         ELSE params_loop(s, it, start, semicolon, ParamSourceCustom(semicolon))
    ELSE params_loop(s, it, start, semicolon, ParamSourceCustom(semicolon))

\* 'ws: after a quoted value, skip spaces up to the next ';' or the end.
ws_loop(s, it, semicolon, params, name, value) ==
    IF it >= Len(s) THEN push_param(s, it, Len(s), semicolon, params, name, value)
    ELSE LET c == At(s, it) IN
         IF c = ";" THEN push_param(s, it + 1, it + 1, semicolon, params, name, value)
         ELSE IF c = " " THEN ws_loop(s, it + 1, semicolon, params, name, value)
         ELSE Err("InvalidToken")

\* 'value: a token, or a quoted string with backslash pairs.
value_loop(s, it, start, semicolon, params, name, is_quoted, is_quoted_pair) ==
    IF is_quoted
    THEN IF is_quoted_pair
         THEN IF it >= Len(s) THEN Err("MissingQuote")
              ELSE IF is_restricted_quoted_char(At(s, it))
              THEN value_loop(s, it + 1, start, semicolon, params, name, TRUE, FALSE)
              ELSE Err("InvalidToken")
         ELSE IF it >= Len(s) THEN Err("MissingQuote")
              ELSE LET c == At(s, it) IN
                   IF c = "\"" /\ it > start
                   THEN ws_loop(s, it + 1, semicolon, params, name, <<start, it + 1>>)
                   ELSE IF c = "\\"
                   THEN value_loop(s, it + 1, start, semicolon, params, name, TRUE, TRUE)
                   ELSE IF is_restricted_quoted_char(c)
                   THEN value_loop(s, it + 1, start, semicolon, params, name, TRUE, FALSE)
                   ELSE Err("InvalidToken")
    ELSE IF it >= Len(s)
         THEN push_param(s, it, Len(s), semicolon, params, name, <<start, Len(s)>>)
         ELSE LET c == At(s, it) IN
              IF c = "\"" /\ it = start
              THEN value_loop(s, it + 1, it + 1, semicolon, params, name, TRUE, FALSE)
              ELSE IF is_token(c)
              THEN value_loop(s, it + 1, start, semicolon, params, name, FALSE, FALSE)
              ELSE IF c = ";" /\ it > start
              THEN push_param(s, it + 1, it + 1, semicolon, params, name, <<start, it>>)
              ELSE Err("InvalidToken")

\* 'name: a leading space restarts the round; a name ends at '='.
name_loop(s, it, start, semicolon, params) ==
    IF it >= Len(s) THEN Err("MissingEqual")
    ELSE LET c == At(s, it) IN
         IF c = " " /\ it = start
         THEN params_loop(s, it + 1, it + 1, semicolon, params)
         ELSE IF is_token(c)
         THEN name_loop(s, it + 1, start, semicolon, params)
         ELSE IF c = "=" /\ it > start
         THEN value_loop(s, it + 1, it + 1, semicolon, params, <<start, it>>, FALSE, FALSE)
         ELSE Err("InvalidToken")

\* 'params: while start < s.len()
params_loop(s, it, start, semicolon, params) ==
    IF start < Len(s)
    THEN name_loop(s, it, start, semicolon, params)
    ELSE Ok(params)

\* mime::parse::params_from_str(s, iter, start): start is the semicolon's index.
params_from_str(s, it, start) == params_loop(s, it, start + 1, start, ParamSourceNone)

\* The end of parse(): the source string of the Mime, given the parameters.
finish_parse(s, slash, plus, start, params) ==
    IF params.tag # "Ok" THEN params
    ELSE LET p == params.value IN
         IF p.kind = "Utf8" THEN Ok(Mime(to_ascii_lowercase(s), slash, plus, p))
         ELSE IF p.kind = "Custom"
         THEN IF slice_ok(s, 0, p.semicolon)
              THEN Ok(Mime(lower_ascii_with_params(s, p.semicolon), slash, plus, p))
              ELSE Panic
         ELSE IF slice_ok(s, 0, start)
              THEN Ok(Mime(to_ascii_lowercase(slice(s, 0, start)), slash, plus, p))
              ELSE Panic

RECURSIVE sublevel(_, _, _, _, _)
\* The second loop of parse(): the subtype, up to the end or a ';'.
sublevel(s, it, slash, start, plus) ==
    IF it >= Len(s)
    THEN Ok(Mime(to_ascii_lowercase(s), slash, plus, ParamSourceNone))
    ELSE LET c == At(s, it) IN
         IF c = "+" /\ it > start
         THEN sublevel(s, it + 1, slash, start, Some(it))
         ELSE IF c = ";" /\ it > start
         THEN finish_parse(s, slash, plus, it, params_from_str(s, it + 1, it))
         ELSE IF is_token(c)
         THEN sublevel(s, it + 1, slash, start, plus)
         ELSE Err("InvalidToken")

RECURSIVE toplevel(_, _)
\* The first loop of parse(): the type, up to a '/' that is not the first byte.
toplevel(s, it) ==
    IF it >= Len(s) THEN Err("MissingSlash")
    ELSE LET c == At(s, it) IN
         IF is_token(c) THEN toplevel(s, it + 1)
         ELSE IF c = "/" /\ it > 0 THEN sublevel(s, it + 1, it, it + 1, NoOption)
         ELSE Err("InvalidToken")

\* mime::parse::parse, reached through content_type.parse::<Mime>().
parse(s) ==
    IF s = StarStarSource THEN Ok(STAR_STAR) ELSE toplevel(s, 0)

\* Mime::essence_str: the source up to the semicolon, or all of it.
essence_end(m) ==
    IF m.params.kind = "None" THEN Len(m.source) ELSE m.params.semicolon

essence_str(m) == slice(m.source, 0, essence_end(m))

(***************************************************************************)
(* The literal list of (essence, compressible) pairs the HashMap is built  *)
(* from, in source order (lib.rs:26-856).                                  *)
(***************************************************************************)
compressible_list == <<
    <<<<"a","p","p","l","i","c","a","t","i","o","n","/","3","g","p","d","a","s","h","-","q","o","e","-","r","e","p","o","r","t","+","x","m","l">>, TRUE>>,
    <<<<"a","p","p","l","i","c","a","t","i","o","n","/","3","g","p","p","-","i","m","s","+","x","m","l">>, TRUE>>,
    <<<<"a","p","p","l","i","c","a","t","i","o","n","/","3","g","p","p","h","a","l","+","j","s","o","n">>, TRUE>>,
    <<<<"a","p","p","l","i","c","a","t","i","o","n","/","3","g","p","p","h","a","l","f","o","r","m","s","+","j","s","o","n">>, TRUE>>,
    <<<<"a","p","p","l","i","c","a","t","i","o","n","/","a","c","t","i","v","i","t","y","+","j","s","o","n">>, TRUE>>,
    <<<<"a","p","p","l","i","c","a","t","i","o","n","/","a","l","t","o","-","c","o","s","t","m","a","p","+","j","s","o","n">>, TRUE>>,
    <<<<"a","p","p","l","i","c","a","t","i","o","n","/","a","l","t","o","-","c","o","s","t","m","a","p","f","i","l","t","e","r","+","j","s","o","n">>, TRUE>>,
    <<<<"a","p","p","l","i","c","a","t","i","o","n","/","a","l","t","o","-","d","i","r","e","c","t","o","r","y","+","j","s","o","n">>, TRUE>>,
    <<<<"a","p","p","l","i","c","a","t","i","o","n","/","a","l","t","o","-","e","n","d","p","o","i","n","t","c","o","s","t","+","j","s","o","n">>, TRUE>>,
    <<<<"a","p","p","l","i","c","a","t","i","o","n","/","a","l","t","o","-","e","n","d","p","o","i","n","t","c","o","s","t","p","a","r","a","m","s","+","j","s","o","n">>, TRUE>>,
    <<<<"a","p","p","l","i","c","a","t","i","o","n","/","a","l","t","o","-","e","n","d","p","o","i","n","t","p","r","o","p","+","j","s","o","n">>, TRUE>>,
    <<<<"a","p","p","l","i","c","a","t","i","o","n","/","a","l","t","o","-","e","n","d","p","o","i","n","t","p","r","o","p","p","a","r","a","m","s","+","j","s","o","n">>, TRUE>>,
    <<<<"a","p","p","l","i","c","a","t","i","o","n","/","a","l","t","o","-","e","r","r","o","r","+","j","s","o","n">>, TRUE>>,
    <<<<"a","p","p","l","i","c","a","t","i","o","n","/","a","l","t","o","-","n","e","t","w","o","r","k","m","a","p","+","j","s","o","n">>, TRUE>>,
    <<<<"a","p","p","l","i","c","a","t","i","o","n","/","a","l","t","o","-","n","e","t","w","o","r","k","m","a","p","f","i","l","t","e","r","+","j","s","o","n">>, TRUE>>,
    <<<<"a","p","p","l","i","c","a","t","i","o","n","/","a","l","t","o","-","u","p","d","a","t","e","s","t","r","e","a","m","c","o","n","t","r","o","l","+","j","s","o","n">>, TRUE>>,
    <<<<"a","p","p","l","i","c","a","t","i","o","n","/","a","l","t","o","-","u","p","d","a","t","e","s","t","r","e","a","m","p","a","r","a","m","s","+","j","s","o","n">>, TRUE>>,
    <<<<"a","p","p","l","i","c","a","t","i","o","n","/","a","t","o","m","+","x","m","l">>, TRUE>>,
    <<<<"a","p","p","l","i","c","a","t","i","o","n","/","a","t","o","m","c","a","t","+","x","m","l">>, TRUE>>,
    <<<<"a","p","p","l","i","c","a","t","i","o","n","/","a","t","o","m","d","e","l","e","t","e","d","+","x","m","l">>, TRUE>>,
    <<<<"a","p","p","l","i","c","a","t","i","o","n","/","a","t","o","m","s","v","c","+","x","m","l">>, TRUE>>,
    <<<<"a","p","p","l","i","c","a","t","i","o","n","/","a","t","s","c","-","d","w","d","+","x","m","l">>, TRUE>>,
    <<<<"a","p","p","l","i","c","a","t","i","o","n","/","a","t","s","c","-","h","e","l","d","+","x","m","l">>, TRUE>>,
    <<<<"a","p","p","l","i","c","a","t","i","o","n","/","a","t","s","c","-","r","d","t","+","j","s","o","n">>, TRUE>>,
    <<<<"a","p","p","l","i","c","a","t","i","o","n","/","a","t","s","c","-","r","s","a","t","+","x","m","l">>, TRUE>>,
    <<<<"a","p","p","l","i","c","a","t","i","o","n","/","a","u","t","h","-","p","o","l","i","c","y","+","x","m","l">>, TRUE>>,
    <<<<"a","p","p","l","i","c","a","t","i","o","n","/","b","e","e","p","+","x","m","l">>, TRUE>>,
    <<<<"a","p","p","l","i","c","a","t","i","o","n","/","c","a","l","e","n","d","a","r","+","j","s","o","n">>, TRUE>>,
    <<<<"a","p","p","l","i","c","a","t","i","o","n","/","c","a","l","e","n","d","a","r","+","x","m","l">>, TRUE>>,
    <<<<"a","p","p","l","i","c","a","t","i","o","n","/","c","a","p","t","i","v","e","+","j","s","o","n">>, TRUE>>,
    <<<<"a","p","p","l","i","c","a","t","i","o","n","/","c","c","m","p","+","x","m","l">>, TRUE>>,
    <<<<"a","p","p","l","i","c","a","t","i","o","n","/","c","c","x","m","l","+","x","m","l">>, TRUE>>,
    <<<<"a","p","p","l","i","c","a","t","i","o","n","/","c","d","f","x","+","x","m","l">>, TRUE>>,
    <<<<"a","p","p","l","i","c","a","t","i","o","n","/","c","e","a","-","2","0","1","8","+","x","m","l">>, TRUE>>,
    <<<<"a","p","p","l","i","c","a","t","i","o","n","/","c","e","l","l","m","l","+","x","m","l">>, TRUE>>,
    <<<<"a","p","p","l","i","c","a","t","i","o","n","/","c","l","u","e","+","x","m","l">>, TRUE>>,
    <<<<"a","p","p","l","i","c","a","t","i","o","n","/","c","l","u","e","_","i","n","f","o","+","x","m","l">>, TRUE>>,
    <<<<"a","p","p","l","i","c","a","t","i","o","n","/","c","n","r","p","+","x","m","l">>, TRUE>>,
    <<<<"a","p","p","l","i","c","a","t","i","o","n","/","c","o","a","p","-","g","r","o","u","p","+","j","s","o","n">>, TRUE>>,
    <<<<"a","p","p","l","i","c","a","t","i","o","n","/","c","o","n","f","e","r","e","n","c","e","-","i","n","f","o","+","x","m","l">>, TRUE>>,
    <<<<"a","p","p","l","i","c","a","t","i","o","n","/","c","p","l","+","x","m","l">>, TRUE>>,
    <<<<"a","p","p","l","i","c","a","t","i","o","n","/","c","s","t","a","+","x","m","l">>, TRUE>>,
    <<<<"a","p","p","l","i","c","a","t","i","o","n","/","c","s","t","a","d","a","t","a","+","x","m","l">>, TRUE>>,
    <<<<"a","p","p","l","i","c","a","t","i","o","n","/","c","s","v","m","+","j","s","o","n">>, TRUE>>,
    <<<<"a","p","p","l","i","c","a","t","i","o","n","/","d","a","r","t">>, TRUE>>,
    <<<<"a","p","p","l","i","c","a","t","i","o","n","/","d","a","s","h","+","x","m","l">>, TRUE>>,
    <<<<"a","p","p","l","i","c","a","t","i","o","n","/","d","a","v","m","o","u","n","t","+","x","m","l">>, TRUE>>,
    <<<<"a","p","p","l","i","c","a","t","i","o","n","/","d","i","a","l","o","g","-","i","n","f","o","+","x","m","l">>, TRUE>>,
    <<<<"a","p","p","l","i","c","a","t","i","o","n","/","d","i","c","o","m","+","j","s","o","n">>, TRUE>>,
    <<<<"a","p","p","l","i","c","a","t","i","o","n","/","d","i","c","o","m","+","x","m","l">>, TRUE>>,
    <<<<"a","p","p","l","i","c","a","t","i","o","n","/","d","n","s","+","j","s","o","n">>, TRUE>>,
    <<<<"a","p","p","l","i","c","a","t","i","o","n","/","d","o","c","b","o","o","k","+","x","m","l">>, TRUE>>,
    <<<<"a","p","p","l","i","c","a","t","i","o","n","/","d","s","k","p","p","+","x","m","l">>, TRUE>>,
    <<<<"a","p","p","l","i","c","a","t","i","o","n","/","d","s","s","c","+","x","m","l">>, TRUE>>,
    <<<<"a","p","p","l","i","c","a","t","i","o","n","/","e","c","m","a","s","c","r","i","p","t">>, TRUE>>,
    <<<<"a","p","p","l","i","c","a","t","i","o","n","/","e","l","m","+","j","s","o","n">>, TRUE>>,
    <<<<"a","p","p","l","i","c","a","t","i","o","n","/","e","l","m","+","x","m","l">>, TRUE>>,
    <<<<"a","p","p","l","i","c","a","t","i","o","n","/","e","m","e","r","g","e","n","c","y","c","a","l","l","d","a","t","a",".","c","a","p","+","x","m","l">>, TRUE>>,
    <<<<"a","p","p","l","i","c","a","t","i","o","n","/","e","m","e","r","g","e","n","c","y","c","a","l","l","d","a","t","a",".","c","o","m","m","e","n","t","+","x","m","l">>, TRUE>>,
    <<<<"a","p","p","l","i","c","a","t","i","o","n","/","e","m","e","r","g","e","n","c","y","c","a","l","l","d","a","t","a",".","c","o","n","t","r","o","l","+","x","m","l">>, TRUE>>,
    <<<<"a","p","p","l","i","c","a","t","i","o","n","/","e","m","e","r","g","e","n","c","y","c","a","l","l","d","a","t","a",".","d","e","v","i","c","e","i","n","f","o","+","x","m","l">>, TRUE>>,
    <<<<"a","p","p","l","i","c","a","t","i","o","n","/","e","m","e","r","g","e","n","c","y","c","a","l","l","d","a","t","a",".","p","r","o","v","i","d","e","r","i","n","f","o","+","x","m","l">>, TRUE>>,
    <<<<"a","p","p","l","i","c","a","t","i","o","n","/","e","m","e","r","g","e","n","c","y","c","a","l","l","d","a","t","a",".","s","e","r","v","i","c","e","i","n","f","o","+","x","m","l">>, TRUE>>,
    <<<<"a","p","p","l","i","c","a","t","i","o","n","/","e","m","e","r","g","e","n","c","y","c","a","l","l","d","a","t","a",".","s","u","b","s","c","r","i","b","e","r","i","n","f","o","+","x","m","l">>, TRUE>>,
    <<<<"a","p","p","l","i","c","a","t","i","o","n","/","e","m","e","r","g","e","n","c","y","c","a","l","l","d","a","t","a",".","v","e","d","s","+","x","m","l">>, TRUE>>,
    <<<<"a","p","p","l","i","c","a","t","i","o","n","/","e","m","m","a","+","x","m","l">>, TRUE>>,
    <<<<"a","p","p","l","i","c","a","t","i","o","n","/","e","m","o","t","i","o","n","m","l","+","x","m","l">>, TRUE>>,
    <<<<"a","p","p","l","i","c","a","t","i","o","n","/","e","p","p","+","x","m","l">>, TRUE>>,
    <<<<"a","p","p","l","i","c","a","t","i","o","n","/","e","x","p","e","c","t","-","c","t","-","r","e","p","o","r","t","+","j","s","o","n">>, TRUE>>,
    <<<<"a","p","p","l","i","c","a","t","i","o","n","/","f","d","t","+","x","m","l">>, TRUE>>,
    <<<<"a","p","p","l","i","c","a","t","i","o","n","/","f","h","i","r","+","j","s","o","n">>, TRUE>>,
    <<<<"a","p","p","l","i","c","a","t","i","o","n","/","f","h","i","r","+","x","m","l">>, TRUE>>,
    <<<<"a","p","p","l","i","c","a","t","i","o","n","/","f","i","d","o",".","t","r","u","s","t","e","d","-","a","p","p","s","+","j","s","o","n">>, TRUE>>,
    <<<<"a","p","p","l","i","c","a","t","i","o","n","/","f","r","a","m","e","w","o","r","k","-","a","t","t","r","i","b","u","t","e","s","+","x","m","l">>, TRUE>>,
    <<<<"a","p","p","l","i","c","a","t","i","o","n","/","g","e","o","+","j","s","o","n">>, TRUE>>,
    <<<<"a","p","p","l","i","c","a","t","i","o","n","/","g","e","o","x","a","c","m","l","+","x","m","l">>, TRUE>>,
    <<<<"a","p","p","l","i","c","a","t","i","o","n","/","g","m","l","+","x","m","l">>, TRUE>>,
    <<<<"a","p","p","l","i","c","a","t","i","o","n","/","g","p","x","+","x","m","l">>, TRUE>>,
    <<<<"a","p","p","l","i","c","a","t","i","o","n","/","h","e","l","d","+","x","m","l">>, TRUE>>,
    <<<<"a","p","p","l","i","c","a","t","i","o","n","/","i","b","e","-","k","e","y","-","r","e","q","u","e","s","t","+","x","m","l">>, TRUE>>,
    <<<<"a","p","p","l","i","c","a","t","i","o","n","/","i","b","e","-","p","k","g","-","r","e","p","l","y","+","x","m","l">>, TRUE>>,
    <<<<"a","p","p","l","i","c","a","t","i","o","n","/","i","m","-","i","s","c","o","m","p","o","s","i","n","g","+","x","m","l">>, TRUE>>,
    <<<<"a","p","p","l","i","c","a","t","i","o","n","/","i","n","k","m","l","+","x","m","l">>, TRUE>>,
    <<<<"a","p","p","l","i","c","a","t","i","o","n","/","i","t","s","+","x","m","l">>, TRUE>>,
    <<<<"a","p","p","l","i","c","a","t","i","o","n","/","j","a","v","a","s","c","r","i","p","t">>, TRUE>>,
    <<<<"a","p","p","l","i","c","a","t","i","o","n","/","j","f","2","f","e","e","d","+","j","s","o","n">>, TRUE>>,
    <<<<"a","p","p","l","i","c","a","t","i","o","n","/","j","o","s","e","+","j","s","o","n">>, TRUE>>,
    <<<<"a","p","p","l","i","c","a","t","i","o","n","/","j","r","d","+","j","s","o","n">>, TRUE>>,
    <<<<"a","p","p","l","i","c","a","t","i","o","n","/","j","s","c","a","l","e","n","d","a","r","+","j","s","o","n">>, TRUE>>,
    <<<<"a","p","p","l","i","c","a","t","i","o","n","/","j","s","o","n">>, TRUE>>,
    <<<<"a","p","p","l","i","c","a","t","i","o","n","/","j","s","o","n","-","p","a","t","c","h","+","j","s","o","n">>, TRUE>>,
    <<<<"a","p","p","l","i","c","a","t","i","o","n","/","j","s","o","n","m","l","+","j","s","o","n">>, TRUE>>,
    <<<<"a","p","p","l","i","c","a","t","i","o","n","/","j","w","k","+","j","s","o","n">>, TRUE>>,
    <<<<"a","p","p","l","i","c","a","t","i","o","n","/","j","w","k","-","s","e","t","+","j","s","o","n">>, TRUE>>,
    <<<<"a","p","p","l","i","c","a","t","i","o","n","/","k","p","m","l","-","r","e","q","u","e","s","t","+","x","m","l">>, TRUE>>,
    <<<<"a","p","p","l","i","c","a","t","i","o","n","/","k","p","m","l","-","r","e","s","p","o","n","s","e","+","x","m","l">>, TRUE>>,
    <<<<"a","p","p","l","i","c","a","t","i","o","n","/","l","d","+","j","s","o","n">>, TRUE>>,
    <<<<"a","p","p","l","i","c","a","t","i","o","n","/","l","g","r","+","x","m","l">>, TRUE>>,
    <<<<"a","p","p","l","i","c","a","t","i","o","n","/","l","o","a","d","-","c","o","n","t","r","o","l","+","x","m","l">>, TRUE>>,
    <<<<"a","p","p","l","i","c","a","t","i","o","n","/","l","o","s","t","+","x","m","l">>, TRUE>>,
    <<<<"a","p","p","l","i","c","a","t","i","o","n","/","l","o","s","t","s","y","n","c","+","x","m","l">>, TRUE>>,
    <<<<"a","p","p","l","i","c","a","t","i","o","n","/","m","a","d","s","+","x","m","l">>, TRUE>>,
    <<<<"a","p","p","l","i","c","a","t","i","o","n","/","m","a","n","i","f","e","s","t","+","j","s","o","n">>, TRUE>>,
    <<<<"a","p","p","l","i","c","a","t","i","o","n","/","m","a","r","c","x","m","l","+","x","m","l">>, TRUE>>,
    <<<<"a","p","p","l","i","c","a","t","i","o","n","/","m","a","t","h","m","l","+","x","m","l">>, TRUE>>,
    <<<<"a","p","p","l","i","c","a","t","i","o","n","/","m","a","t","h","m","l","-","c","o","n","t","e","n","t","+","x","m","l">>, TRUE>>,
    <<<<"a","p","p","l","i","c","a","t","i","o","n","/","m","a","t","h","m","l","-","p","r","e","s","e","n","t","a","t","i","o","n","+","x","m","l">>, TRUE>>,
    <<<<"a","p","p","l","i","c","a","t","i","o","n","/","m","b","m","s","-","a","s","s","o","c","i","a","t","e","d","-","p","r","o","c","e","d","u","r","e","-","d","e","s","c","r","i","p","t","i","o","n","+","x","m","l">>, TRUE>>,
    <<<<"a","p","p","l","i","c","a","t","i","o","n","/","m","b","m","s","-","d","e","r","e","g","i","s","t","e","r","+","x","m","l">>, TRUE>>,
    <<<<"a","p","p","l","i","c","a","t","i","o","n","/","m","b","m","s","-","e","n","v","e","l","o","p","e","+","x","m","l">>, TRUE>>,
    <<<<"a","p","p","l","i","c","a","t","i","o","n","/","m","b","m","s","-","m","s","k","+","x","m","l">>, TRUE>>,
    <<<<"a","p","p","l","i","c","a","t","i","o","n","/","m","b","m","s","-","m","s","k","-","r","e","s","p","o","n","s","e","+","x","m","l">>, TRUE>>,
    <<<<"a","p","p","l","i","c","a","t","i","o","n","/","m","b","m","s","-","p","r","o","t","e","c","t","i","o","n","-","d","e","s","c","r","i","p","t","i","o","n","+","x","m","l">>, TRUE>>,
    <<<<"a","p","p","l","i","c","a","t","i","o","n","/","m","b","m","s","-","r","e","c","e","p","t","i","o","n","-","r","e","p","o","r","t","+","x","m","l">>, TRUE>>,
    <<<<"a","p","p","l","i","c","a","t","i","o","n","/","m","b","m","s","-","r","e","g","i","s","t","e","r","+","x","m","l">>, TRUE>>,
    <<<<"a","p","p","l","i","c","a","t","i","o","n","/","m","b","m","s","-","r","e","g","i","s","t","e","r","-","r","e","s","p","o","n","s","e","+","x","m","l">>, TRUE>>,
    <<<<"a","p","p","l","i","c","a","t","i","o","n","/","m","b","m","s","-","s","c","h","e","d","u","l","e","+","x","m","l">>, TRUE>>,
    <<<<"a","p","p","l","i","c","a","t","i","o","n","/","m","b","m","s","-","u","s","e","r","-","s","e","r","v","i","c","e","-","d","e","s","c","r","i","p","t","i","o","n","+","x","m","l">>, TRUE>>,
    <<<<"a","p","p","l","i","c","a","t","i","o","n","/","m","e","d","i","a","-","p","o","l","i","c","y","-","d","a","t","a","s","e","t","+","x","m","l">>, TRUE>>,
    <<<<"a","p","p","l","i","c","a","t","i","o","n","/","m","e","d","i","a","_","c","o","n","t","r","o","l","+","x","m","l">>, TRUE>>,
    <<<<"a","p","p","l","i","c","a","t","i","o","n","/","m","e","d","i","a","s","e","r","v","e","r","c","o","n","t","r","o","l","+","x","m","l">>, TRUE>>,
    <<<<"a","p","p","l","i","c","a","t","i","o","n","/","m","e","r","g","e","-","p","a","t","c","h","+","j","s","o","n">>, TRUE>>,
    <<<<"a","p","p","l","i","c","a","t","i","o","n","/","m","e","t","a","l","i","n","k","+","x","m","l">>, TRUE>>,
    <<<<"a","p","p","l","i","c","a","t","i","o","n","/","m","e","t","a","l","i","n","k","4","+","x","m","l">>, TRUE>>,
    <<<<"a","p","p","l","i","c","a","t","i","o","n","/","m","e","t","s","+","x","m","l">>, TRUE>>,
    <<<<"a","p","p","l","i","c","a","t","i","o","n","/","m","m","t","-","a","e","i","+","x","m","l">>, TRUE>>,
    <<<<"a","p","p","l","i","c","a","t","i","o","n","/","m","m","t","-","u","s","d","+","x","m","l">>, TRUE>>,
    <<<<"a","p","p","l","i","c","a","t","i","o","n","/","m","o","d","s","+","x","m","l">>, TRUE>>,
    <<<<"a","p","p","l","i","c","a","t","i","o","n","/","m","r","b","-","c","o","n","s","u","m","e","r","+","x","m","l">>, TRUE>>,
    <<<<"a","p","p","l","i","c","a","t","i","o","n","/","m","r","b","-","p","u","b","l","i","s","h","+","x","m","l">>, TRUE>>,
    <<<<"a","p","p","l","i","c","a","t","i","o","n","/","m","s","c","-","i","v","r","+","x","m","l">>, TRUE>>,
    <<<<"a","p","p","l","i","c","a","t","i","o","n","/","m","s","c","-","m","i","x","e","r","+","x","m","l">>, TRUE>>,
    <<<<"a","p","p","l","i","c","a","t","i","o","n","/","m","u","d","+","j","s","o","n">>, TRUE>>,
    <<<<"a","p","p","l","i","c","a","t","i","o","n","/","n","l","s","m","l","+","x","m","l">>, TRUE>>,
    <<<<"a","p","p","l","i","c","a","t","i","o","n","/","o","d","m","+","x","m","l">>, TRUE>>,
    <<<<"a","p","p","l","i","c","a","t","i","o","n","/","o","e","b","p","s","-","p","a","c","k","a","g","e","+","x","m","l">>, TRUE>>,
    <<<<"a","p","p","l","i","c","a","t","i","o","n","/","o","m","d","o","c","+","x","m","l">>, TRUE>>,
    <<<<"a","p","p","l","i","c","a","t","i","o","n","/","o","p","c","-","n","o","d","e","s","e","t","+","x","m","l">>, TRUE>>,
    <<<<"a","p","p","l","i","c","a","t","i","o","n","/","p","2","p","-","o","v","e","r","l","a","y","+","x","m","l">>, TRUE>>,
    <<<<"a","p","p","l","i","c","a","t","i","o","n","/","p","a","t","c","h","-","o","p","s","-","e","r","r","o","r","+","x","m","l">>, TRUE>>,
    <<<<"a","p","p","l","i","c","a","t","i","o","n","/","p","i","d","f","+","x","m","l">>, TRUE>>,
    <<<<"a","p","p","l","i","c","a","t","i","o","n","/","p","i","d","f","-","d","i","f","f","+","x","m","l">>, TRUE>>,
    <<<<"a","p","p","l","i","c","a","t","i","o","n","/","p","l","s","+","x","m","l">>, TRUE>>,
    <<<<"a","p","p","l","i","c","a","t","i","o","n","/","p","o","c","-","s","e","t","t","i","n","g","s","+","x","m","l">>, TRUE>>,
    <<<<"a","p","p","l","i","c","a","t","i","o","n","/","p","o","s","t","s","c","r","i","p","t">>, TRUE>>,
    <<<<"a","p","p","l","i","c","a","t","i","o","n","/","p","p","s","p","-","t","r","a","c","k","e","r","+","j","s","o","n">>, TRUE>>,
    <<<<"a","p","p","l","i","c","a","t","i","o","n","/","p","r","o","b","l","e","m","+","j","s","o","n">>, TRUE>>,
    <<<<"a","p","p","l","i","c","a","t","i","o","n","/","p","r","o","b","l","e","m","+","x","m","l">>, TRUE>>,
    <<<<"a","p","p","l","i","c","a","t","i","o","n","/","p","r","o","v","e","n","a","n","c","e","+","x","m","l">>, TRUE>>,
    <<<<"a","p","p","l","i","c","a","t","i","o","n","/","p","r","s",".","x","s","f","+","x","m","l">>, TRUE>>,
    <<<<"a","p","p","l","i","c","a","t","i","o","n","/","p","s","k","c","+","x","m","l">>, TRUE>>,
    <<<<"a","p","p","l","i","c","a","t","i","o","n","/","p","v","d","+","j","s","o","n">>, TRUE>>,
    <<<<"a","p","p","l","i","c","a","t","i","o","n","/","r","a","m","l","+","y","a","m","l">>, TRUE>>,
    <<<<"a","p","p","l","i","c","a","t","i","o","n","/","r","d","a","p","+","j","s","o","n">>, TRUE>>,
    <<<<"a","p","p","l","i","c","a","t","i","o","n","/","r","d","f","+","x","m","l">>, TRUE>>,
    <<<<"a","p","p","l","i","c","a","t","i","o","n","/","r","e","g","i","n","f","o","+","x","m","l">>, TRUE>>,
    <<<<"a","p","p","l","i","c","a","t","i","o","n","/","r","e","p","u","t","o","n","+","j","s","o","n">>, TRUE>>,
    <<<<"a","p","p","l","i","c","a","t","i","o","n","/","r","e","s","o","u","r","c","e","-","l","i","s","t","s","+","x","m","l">>, TRUE>>,
    <<<<"a","p","p","l","i","c","a","t","i","o","n","/","r","e","s","o","u","r","c","e","-","l","i","s","t","s","-","d","i","f","f","+","x","m","l">>, TRUE>>,
    <<<<"a","p","p","l","i","c","a","t","i","o","n","/","r","f","c","+","x","m","l">>, TRUE>>,
    <<<<"a","p","p","l","i","c","a","t","i","o","n","/","r","l","m","i","+","x","m","l">>, TRUE>>,
    <<<<"a","p","p","l","i","c","a","t","i","o","n","/","r","l","s","-","s","e","r","v","i","c","e","s","+","x","m","l">>, TRUE>>,
    <<<<"a","p","p","l","i","c","a","t","i","o","n","/","r","o","u","t","e","-","a","p","d","+","x","m","l">>, TRUE>>,
    <<<<"a","p","p","l","i","c","a","t","i","o","n","/","r","o","u","t","e","-","s","-","t","s","i","d","+","x","m","l">>, TRUE>>,
    <<<<"a","p","p","l","i","c","a","t","i","o","n","/","r","o","u","t","e","-","u","s","d","+","x","m","l">>, TRUE>>,
    <<<<"a","p","p","l","i","c","a","t","i","o","n","/","r","s","d","+","x","m","l">>, TRUE>>,
    <<<<"a","p","p","l","i","c","a","t","i","o","n","/","r","s","s","+","x","m","l">>, TRUE>>,
    <<<<"a","p","p","l","i","c","a","t","i","o","n","/","r","t","f">>, TRUE>>,
    <<<<"a","p","p","l","i","c","a","t","i","o","n","/","s","a","m","l","a","s","s","e","r","t","i","o","n","+","x","m","l">>, TRUE>>,
    <<<<"a","p","p","l","i","c","a","t","i","o","n","/","s","a","m","l","m","e","t","a","d","a","t","a","+","x","m","l">>, TRUE>>,
    <<<<"a","p","p","l","i","c","a","t","i","o","n","/","s","a","r","i","f","+","j","s","o","n">>, TRUE>>,
    <<<<"a","p","p","l","i","c","a","t","i","o","n","/","s","a","r","i","f","-","e","x","t","e","r","n","a","l","-","p","r","o","p","e","r","t","i","e","s","+","j","s","o","n">>, TRUE>>,
    <<<<"a","p","p","l","i","c","a","t","i","o","n","/","s","b","m","l","+","x","m","l">>, TRUE>>,
    <<<<"a","p","p","l","i","c","a","t","i","o","n","/","s","c","a","i","p","+","x","m","l">>, TRUE>>,
    <<<<"a","p","p","l","i","c","a","t","i","o","n","/","s","c","i","m","+","j","s","o","n">>, TRUE>>,
    <<<<"a","p","p","l","i","c","a","t","i","o","n","/","s","e","n","m","l","+","j","s","o","n">>, TRUE>>,
    <<<<"a","p","p","l","i","c","a","t","i","o","n","/","s","e","n","m","l","+","x","m","l">>, TRUE>>,
    <<<<"a","p","p","l","i","c","a","t","i","o","n","/","s","e","n","m","l","-","e","t","c","h","+","j","s","o","n">>, TRUE>>,
    <<<<"a","p","p","l","i","c","a","t","i","o","n","/","s","e","n","s","m","l","+","j","s","o","n">>, TRUE>>,
    <<<<"a","p","p","l","i","c","a","t","i","o","n","/","s","e","n","s","m","l","+","x","m","l">>, TRUE>>,
    <<<<"a","p","p","l","i","c","a","t","i","o","n","/","s","e","p","+","x","m","l">>, TRUE>>,
    <<<<"a","p","p","l","i","c","a","t","i","o","n","/","s","h","f","+","x","m","l">>, TRUE>>,
    <<<<"a","p","p","l","i","c","a","t","i","o","n","/","s","i","m","p","l","e","-","f","i","l","t","e","r","+","x","m","l">>, TRUE>>,
    <<<<"a","p","p","l","i","c","a","t","i","o","n","/","s","m","i","l","+","x","m","l">>, TRUE>>,
    <<<<"a","p","p","l","i","c","a","t","i","o","n","/","s","o","a","p","+","x","m","l">>, TRUE>>,
    <<<<"a","p","p","l","i","c","a","t","i","o","n","/","s","p","a","r","q","l","-","r","e","s","u","l","t","s","+","x","m","l">>, TRUE>>,
    <<<<"a","p","p","l","i","c","a","t","i","o","n","/","s","p","i","r","i","t","s","-","e","v","e","n","t","+","x","m","l">>, TRUE>>,
    <<<<"a","p","p","l","i","c","a","t","i","o","n","/","s","r","g","s","+","x","m","l">>, TRUE>>,
    <<<<"a","p","p","l","i","c","a","t","i","o","n","/","s","r","u","+","x","m","l">>, TRUE>>,
    <<<<"a","p","p","l","i","c","a","t","i","o","n","/","s","s","d","l","+","x","m","l">>, TRUE>>,
    <<<<"a","p","p","l","i","c","a","t","i","o","n","/","s","s","m","l","+","x","m","l">>, TRUE>>,
    <<<<"a","p","p","l","i","c","a","t","i","o","n","/","s","t","i","x","+","j","s","o","n">>, TRUE>>,
    <<<<"a","p","p","l","i","c","a","t","i","o","n","/","s","w","i","d","+","x","m","l">>, TRUE>>,
    <<<<"a","p","p","l","i","c","a","t","i","o","n","/","t","a","r">>, TRUE>>,
    <<<<"a","p","p","l","i","c","a","t","i","o","n","/","t","a","x","i","i","+","j","s","o","n">>, TRUE>>,
    <<<<"a","p","p","l","i","c","a","t","i","o","n","/","t","d","+","j","s","o","n">>, TRUE>>,
    <<<<"a","p","p","l","i","c","a","t","i","o","n","/","t","e","i","+","x","m","l">>, TRUE>>,
    <<<<"a","p","p","l","i","c","a","t","i","o","n","/","t","h","r","a","u","d","+","x","m","l">>, TRUE>>,
    <<<<"a","p","p","l","i","c","a","t","i","o","n","/","t","l","s","r","p","t","+","j","s","o","n">>, TRUE>>,
    <<<<"a","p","p","l","i","c","a","t","i","o","n","/","t","o","m","l">>, TRUE>>,
    <<<<"a","p","p","l","i","c","a","t","i","o","n","/","t","t","m","l","+","x","m","l">>, TRUE>>,
    <<<<"a","p","p","l","i","c","a","t","i","o","n","/","u","r","c","-","g","r","p","s","h","e","e","t","+","x","m","l">>, TRUE>>,
    <<<<"a","p","p","l","i","c","a","t","i","o","n","/","u","r","c","-","r","e","s","s","h","e","e","t","+","x","m","l">>, TRUE>>,
    <<<<"a","p","p","l","i","c","a","t","i","o","n","/","u","r","c","-","t","a","r","g","e","t","d","e","s","c","+","x","m","l">>, TRUE>>,
    <<<<"a","p","p","l","i","c","a","t","i","o","n","/","u","r","c","-","u","i","s","o","c","k","e","t","d","e","s","c","+","x","m","l">>, TRUE>>,
    <<<<"a","p","p","l","i","c","a","t","i","o","n","/","v","c","a","r","d","+","j","s","o","n">>, TRUE>>,
    <<<<"a","p","p","l","i","c","a","t","i","o","n","/","v","c","a","r","d","+","x","m","l">>, TRUE>>,
    <<<<"a","p","p","l","i","c","a","t","i","o","n","/","v","n","d",".","1","0","0","0","m","i","n","d","s",".","d","e","c","i","s","i","o","n","-","m","o","d","e","l","+","x","m","l">>, TRUE>>,
    <<<<"a","p","p","l","i","c","a","t","i","o","n","/","v","n","d",".","3","g","p","p","-","p","r","o","s","e","+","x","m","l">>, TRUE>>,
    <<<<"a","p","p","l","i","c","a","t","i","o","n","/","v","n","d",".","3","g","p","p","-","p","r","o","s","e","-","p","c","3","c","h","+","x","m","l">>, TRUE>>,
    <<<<"a","p","p","l","i","c","a","t","i","o","n","/","v","n","d",".","3","g","p","p",".","a","c","c","e","s","s","-","t","r","a","n","s","f","e","r","-","e","v","e","n","t","s","+","x","m","l">>, TRUE>>,
    <<<<"a","p","p","l","i","c","a","t","i","o","n","/","v","n","d",".","3","g","p","p",".","b","s","f","+","x","m","l">>, TRUE>>,
    <<<<"a","p","p","l","i","c","a","t","i","o","n","/","v","n","d",".","3","g","p","p",".","g","m","o","p","+","x","m","l">>, TRUE>>,
    <<<<"a","p","p","l","i","c","a","t","i","o","n","/","v","n","d",".","3","g","p","p",".","m","c","d","a","t","a","-","a","f","f","i","l","i","a","t","i","o","n","-","c","o","m","m","a","n","d","+","x","m","l">>, TRUE>>,
    <<<<"a","p","p","l","i","c","a","t","i","o","n","/","v","n","d",".","3","g","p","p",".","m","c","d","a","t","a","-","i","n","f","o","+","x","m","l">>, TRUE>>,
    <<<<"a","p","p","l","i","c","a","t","i","o","n","/","v","n","d",".","3","g","p","p",".","m","c","d","a","t","a","-","s","e","r","v","i","c","e","-","c","o","n","f","i","g","+","x","m","l">>, TRUE>>,
    <<<<"a","p","p","l","i","c","a","t","i","o","n","/","v","n","d",".","3","g","p","p",".","m","c","d","a","t","a","-","u","e","-","c","o","n","f","i","g","+","x","m","l">>, TRUE>>,
    <<<<"a","p","p","l","i","c","a","t","i","o","n","/","v","n","d",".","3","g","p","p",".","m","c","d","a","t","a","-","u","s","e","r","-","p","r","o","f","i","l","e","+","x","m","l">>, TRUE>>,
    <<<<"a","p","p","l","i","c","a","t","i","o","n","/","v","n","d",".","3","g","p","p",".","m","c","p","t","t","-","a","f","f","i","l","i","a","t","i","o","n","-","c","o","m","m","a","n","d","+","x","m","l">>, TRUE>>,
    <<<<"a","p","p","l","i","c","a","t","i","o","n","/","v","n","d",".","3","g","p","p",".","m","c","p","t","t","-","f","l","o","o","r","-","r","e","q","u","e","s","t","+","x","m","l">>, TRUE>>,
    <<<<"a","p","p","l","i","c","a","t","i","o","n","/","v","n","d",".","3","g","p","p",".","m","c","p","t","t","-","i","n","f","o","+","x","m","l">>, TRUE>>,
    <<<<"a","p","p","l","i","c","a","t","i","o","n","/","v","n","d",".","3","g","p","p",".","m","c","p","t","t","-","l","o","c","a","t","i","o","n","-","i","n","f","o","+","x","m","l">>, TRUE>>,
    <<<<"a","p","p","l","i","c","a","t","i","o","n","/","v","n","d",".","3","g","p","p",".","m","c","p","t","t","-","m","b","m","s","-","u","s","a","g","e","-","i","n","f","o","+","x","m","l">>, TRUE>>,
    <<<<"a","p","p","l","i","c","a","t","i","o","n","/","v","n","d",".","3","g","p","p",".","m","c","p","t","t","-","s","e","r","v","i","c","e","-","c","o","n","f","i","g","+","x","m","l">>, TRUE>>,
    <<<<"a","p","p","l","i","c","a","t","i","o","n","/","v","n","d",".","3","g","p","p",".","m","c","p","t","t","-","s","i","g","n","e","d","+","x","m","l">>, TRUE>>,
    <<<<"a","p","p","l","i","c","a","t","i","o","n","/","v","n","d",".","3","g","p","p",".","m","c","p","t","t","-","u","e","-","c","o","n","f","i","g","+","x","m","l">>, TRUE>>,
    <<<<"a","p","p","l","i","c","a","t","i","o","n","/","v","n","d",".","3","g","p","p",".","m","c","p","t","t","-","u","e","-","i","n","i","t","-","c","o","n","f","i","g","+","x","m","l">>, TRUE>>,
    <<<<"a","p","p","l","i","c","a","t","i","o","n","/","v","n","d",".","3","g","p","p",".","m","c","p","t","t","-","u","s","e","r","-","p","r","o","f","i","l","e","+","x","m","l">>, TRUE>>,
    <<<<"a","p","p","l","i","c","a","t","i","o","n","/","v","n","d",".","3","g","p","p",".","m","c","v","i","d","e","o","-","a","f","f","i","l","i","a","t","i","o","n","-","c","o","m","m","a","n","d","+","x","m","l">>, TRUE>>,
    <<<<"a","p","p","l","i","c","a","t","i","o","n","/","v","n","d",".","3","g","p","p",".","m","c","v","i","d","e","o","-","a","f","f","i","l","i","a","t","i","o","n","-","i","n","f","o","+","x","m","l">>, TRUE>>,
    <<<<"a","p","p","l","i","c","a","t","i","o","n","/","v","n","d",".","3","g","p","p",".","m","c","v","i","d","e","o","-","i","n","f","o","+","x","m","l">>, TRUE>>,
    <<<<"a","p","p","l","i","c","a","t","i","o","n","/","v","n","d",".","3","g","p","p",".","m","c","v","i","d","e","o","-","l","o","c","a","t","i","o","n","-","i","n","f","o","+","x","m","l">>, TRUE>>,
    <<<<"a","p","p","l","i","c","a","t","i","o","n","/","v","n","d",".","3","g","p","p",".","m","c","v","i","d","e","o","-","m","b","m","s","-","u","s","a","g","e","-","i","n","f","o","+","x","m","l">>, TRUE>>,
    <<<<"a","p","p","l","i","c","a","t","i","o","n","/","v","n","d",".","3","g","p","p",".","m","c","v","i","d","e","o","-","s","e","r","v","i","c","e","-","c","o","n","f","i","g","+","x","m","l">>, TRUE>>,
    <<<<"a","p","p","l","i","c","a","t","i","o","n","/","v","n","d",".","3","g","p","p",".","m","c","v","i","d","e","o","-","t","r","a","n","s","m","i","s","s","i","o","n","-","r","e","q","u","e","s","t","+","x","m","l">>, TRUE>>,
    <<<<"a","p","p","l","i","c","a","t","i","o","n","/","v","n","d",".","3","g","p","p",".","m","c","v","i","d","e","o","-","u","e","-","c","o","n","f","i","g","+","x","m","l">>, TRUE>>,
    <<<<"a","p","p","l","i","c","a","t","i","o","n","/","v","n","d",".","3","g","p","p",".","m","c","v","i","d","e","o","-","u","s","e","r","-","p","r","o","f","i","l","e","+","x","m","l">>, TRUE>>,
    <<<<"a","p","p","l","i","c","a","t","i","o","n","/","v","n","d",".","3","g","p","p",".","m","i","d","-","c","a","l","l","+","x","m","l">>, TRUE>>,
    <<<<"a","p","p","l","i","c","a","t","i","o","n","/","v","n","d",".","3","g","p","p",".","s","m","s","+","x","m","l">>, TRUE>>,
    <<<<"a","p","p","l","i","c","a","t","i","o","n","/","v","n","d",".","3","g","p","p",".","s","r","v","c","c","-","e","x","t","+","x","m","l">>, TRUE>>,
    <<<<"a","p","p","l","i","c","a","t","i","o","n","/","v","n","d",".","3","g","p","p",".","s","r","v","c","c","-","i","n","f","o","+","x","m","l">>, TRUE>>,
    <<<<"a","p","p","l","i","c","a","t","i","o","n","/","v","n","d",".","3","g","p","p",".","s","t","a","t","e","-","a","n","d","-","e","v","e","n","t","-","i","n","f","o","+","x","m","l">>, TRUE>>,
    <<<<"a","p","p","l","i","c","a","t","i","o","n","/","v","n","d",".","3","g","p","p",".","u","s","s","d","+","x","m","l">>, TRUE>>,
    <<<<"a","p","p","l","i","c","a","t","i","o","n","/","v","n","d",".","3","g","p","p","2",".","b","c","m","c","s","i","n","f","o","+","x","m","l">>, TRUE>>,
    <<<<"a","p","p","l","i","c","a","t","i","o","n","/","v","n","d",".","a","d","o","b","e",".","x","d","p","+","x","m","l">>, TRUE>>,
    <<<<"a","p","p","l","i","c","a","t","i","o","n","/","v","n","d",".","a","m","a","d","e","u","s","+","j","s","o","n">>, TRUE>>,
    <<<<"a","p","p","l","i","c","a","t","i","o","n","/","v","n","d",".","a","m","u","n","d","s","e","n",".","m","a","z","e","+","x","m","l">>, TRUE>>,
    <<<<"a","p","p","l","i","c","a","t","i","o","n","/","v","n","d",".","a","p","i","+","j","s","o","n">>, TRUE>>,
    <<<<"a","p","p","l","i","c","a","t","i","o","n","/","v","n","d",".","a","p","l","e","x","t","o","r",".","w","a","r","r","p","+","j","s","o","n">>, TRUE>>,
    <<<<"a","p","p","l","i","c","a","t","i","o","n","/","v","n","d",".","a","p","o","t","h","e","k","e","n","d","e",".","r","e","s","e","r","v","a","t","i","o","n","+","j","s","o","n">>, TRUE>>,
    <<<<"a","p","p","l","i","c","a","t","i","o","n","/","v","n","d",".","a","p","p","l","e",".","i","n","s","t","a","l","l","e","r","+","x","m","l">>, TRUE>>,
    <<<<"a","p","p","l","i","c","a","t","i","o","n","/","v","n","d",".","a","r","t","i","s","a","n","+","j","s","o","n">>, TRUE>>,
    <<<<"a","p","p","l","i","c","a","t","i","o","n","/","v","n","d",".","a","v","a","l","o","n","+","j","s","o","n">>, TRUE>>,
    <<<<"a","p","p","l","i","c","a","t","i","o","n","/","v","n","d",".","a","v","i","s","t","a","r","+","x","m","l">>, TRUE>>,
    <<<<"a","p","p","l","i","c","a","t","i","o","n","/","v","n","d",".","b","a","l","s","a","m","i","q",".","b","m","m","l","+","x","m","l">>, TRUE>>,
    <<<<"a","p","p","l","i","c","a","t","i","o","n","/","v","n","d",".","b","b","f",".","u","s","p",".","m","s","g","+","j","s","o","n">>, TRUE>>,
    <<<<"a","p","p","l","i","c","a","t","i","o","n","/","v","n","d",".","b","e","k","i","t","z","u","r","-","s","t","e","c","h","+","j","s","o","n">>, TRUE>>,
    <<<<"a","p","p","l","i","c","a","t","i","o","n","/","v","n","d",".","b","i","o","p","a","x",".","r","d","f","+","x","m","l">>, TRUE>>,
    <<<<"a","p","p","l","i","c","a","t","i","o","n","/","v","n","d",".","b","y","u",".","u","a","p","i","+","j","s","o","n">>, TRUE>>,
    <<<<"a","p","p","l","i","c","a","t","i","o","n","/","v","n","d",".","c","a","p","a","s","y","s","t","e","m","s","-","p","g","+","j","s","o","n">>, TRUE>>,
    <<<<"a","p","p","l","i","c","a","t","i","o","n","/","v","n","d",".","c","h","e","m","d","r","a","w","+","x","m","l">>, TRUE>>,
    <<<<"a","p","p","l","i","c","a","t","i","o","n","/","v","n","d",".","c","i","t","a","t","i","o","n","s","t","y","l","e","s",".","s","t","y","l","e","+","x","m","l">>, TRUE>>,
    <<<<"a","p","p","l","i","c","a","t","i","o","n","/","v","n","d",".","c","o","l","l","e","c","t","i","o","n","+","j","s","o","n">>, TRUE>>,
    <<<<"a","p","p","l","i","c","a","t","i","o","n","/","v","n","d",".","c","o","l","l","e","c","t","i","o","n",".","d","o","c","+","j","s","o","n">>, TRUE>>,
    <<<<"a","p","p","l","i","c","a","t","i","o","n","/","v","n","d",".","c","o","l","l","e","c","t","i","o","n",".","n","e","x","t","+","j","s","o","n">>, TRUE>>,
    <<<<"a","p","p","l","i","c","a","t","i","o","n","/","v","n","d",".","c","o","r","e","o","s",".","i","g","n","i","t","i","o","n","+","j","s","o","n">>, TRUE>>,
    <<<<"a","p","p","l","i","c","a","t","i","o","n","/","v","n","d",".","c","r","i","t","i","c","a","l","t","o","o","l","s",".","w","b","s","+","x","m","l">>, TRUE>>,
    <<<<"a","p","p","l","i","c","a","t","i","o","n","/","v","n","d",".","c","r","y","p","t","i","i",".","p","i","p","e","+","j","s","o","n">>, TRUE>>,
    <<<<"a","p","p","l","i","c","a","t","i","o","n","/","v","n","d",".","c","t","c","t",".","w","s","+","x","m","l">>, TRUE>>,
    <<<<"a","p","p","l","i","c","a","t","i","o","n","/","v","n","d",".","c","y","a","n",".","d","e","a","n",".","r","o","o","t","+","x","m","l">>, TRUE>>,
    <<<<"a","p","p","l","i","c","a","t","i","o","n","/","v","n","d",".","c","y","c","l","o","n","e","d","x","+","j","s","o","n">>, TRUE>>,
    <<<<"a","p","p","l","i","c","a","t","i","o","n","/","v","n","d",".","c","y","c","l","o","n","e","d","x","+","x","m","l">>, TRUE>>,
    <<<<"a","p","p","l","i","c","a","t","i","o","n","/","v","n","d",".","d","a","r","t">>, TRUE>>,
    <<<<"a","p","p","l","i","c","a","t","i","o","n","/","v","n","d",".","d","a","t","a","p","a","c","k","a","g","e","+","j","s","o","n">>, TRUE>>,
    <<<<"a","p","p","l","i","c","a","t","i","o","n","/","v","n","d",".","d","a","t","a","r","e","s","o","u","r","c","e","+","j","s","o","n">>, TRUE>>,
    <<<<"a","p","p","l","i","c","a","t","i","o","n","/","v","n","d",".","d","e","c","e",".","t","t","m","l","+","x","m","l">>, TRUE>>,
    <<<<"a","p","p","l","i","c","a","t","i","o","n","/","v","n","d",".","d","m",".","d","e","l","e","g","a","t","i","o","n","+","x","m","l">>, TRUE>>,
    <<<<"a","p","p","l","i","c","a","t","i","o","n","/","v","n","d",".","d","o","c","u","m","e","n","t","+","j","s","o","n">>, TRUE>>,
    <<<<"a","p","p","l","i","c","a","t","i","o","n","/","v","n","d",".","d","r","i","v","e","+","j","s","o","n">>, TRUE>>,
    <<<<"a","p","p","l","i","c","a","t","i","o","n","/","v","n","d",".","d","v","b",".","d","v","b","i","s","l","+","x","m","l">>, TRUE>>,
    <<<<"a","p","p","l","i","c","a","t","i","o","n","/","v","n","d",".","d","v","b",".","n","o","t","i","f","-","a","g","g","r","e","g","a","t","e","-","r","o","o","t","+","x","m","l">>, TRUE>>,
    <<<<"a","p","p","l","i","c","a","t","i","o","n","/","v","n","d",".","d","v","b",".","n","o","t","i","f","-","c","o","n","t","a","i","n","e","r","+","x","m","l">>, TRUE>>,
    <<<<"a","p","p","l","i","c","a","t","i","o","n","/","v","n","d",".","d","v","b",".","n","o","t","i","f","-","g","e","n","e","r","i","c","+","x","m","l">>, TRUE>>,
    <<<<"a","p","p","l","i","c","a","t","i","o","n","/","v","n","d",".","d","v","b",".","n","o","t","i","f","-","i","a","-","m","s","g","l","i","s","t","+","x","m","l">>, TRUE>>,
    <<<<"a","p","p","l","i","c","a","t","i","o","n","/","v","n","d",".","d","v","b",".","n","o","t","i","f","-","i","a","-","r","e","g","i","s","t","r","a","t","i","o","n","-","r","e","q","u","e","s","t","+","x","m","l">>, TRUE>>,
    <<<<"a","p","p","l","i","c","a","t","i","o","n","/","v","n","d",".","d","v","b",".","n","o","t","i","f","-","i","a","-","r","e","g","i","s","t","r","a","t","i","o","n","-","r","e","s","p","o","n","s","e","+","x","m","l">>, TRUE>>,
    <<<<"a","p","p","l","i","c","a","t","i","o","n","/","v","n","d",".","d","v","b",".","n","o","t","i","f","-","i","n","i","t","+","x","m","l">>, TRUE>>,
    <<<<"a","p","p","l","i","c","a","t","i","o","n","/","v","n","d",".","e","m","c","l","i","e","n","t",".","a","c","c","e","s","s","r","e","q","u","e","s","t","+","x","m","l">>, TRUE>>,
    <<<<"a","p","p","l","i","c","a","t","i","o","n","/","v","n","d",".","e","p","r","i","n","t","s",".","d","a","t","a","+","x","m","l">>, TRUE>>,
    <<<<"a","p","p","l","i","c","a","t","i","o","n","/","v","n","d",".","e","s","z","i","g","n","o","3","+","x","m","l">>, TRUE>>,
    <<<<"a","p","p","l","i","c","a","t","i","o","n","/","v","n","d",".","e","t","s","i",".","a","o","c","+","x","m","l">>, TRUE>>,
    <<<<"a","p","p","l","i","c","a","t","i","o","n","/","v","n","d",".","e","t","s","i",".","c","u","g","+","x","m","l">>, TRUE>>,
    <<<<"a","p","p","l","i","c","a","t","i","o","n","/","v","n","d",".","e","t","s","i",".","i","p","t","v","c","o","m","m","a","n","d","+","x","m","l">>, TRUE>>,
    <<<<"a","p","p","l","i","c","a","t","i","o","n","/","v","n","d",".","e","t","s","i",".","i","p","t","v","d","i","s","c","o","v","e","r","y","+","x","m","l">>, TRUE>>,
    <<<<"a","p","p","l","i","c","a","t","i","o","n","/","v","n","d",".","e","t","s","i",".","i","p","t","v","p","r","o","f","i","l","e","+","x","m","l">>, TRUE>>,
    <<<<"a","p","p","l","i","c","a","t","i","o","n","/","v","n","d",".","e","t","s","i",".","i","p","t","v","s","a","d","-","b","c","+","x","m","l">>, TRUE>>,
    <<<<"a","p","p","l","i","c","a","t","i","o","n","/","v","n","d",".","e","t","s","i",".","i","p","t","v","s","a","d","-","c","o","d","+","x","m","l">>, TRUE>>,
    <<<<"a","p","p","l","i","c","a","t","i","o","n","/","v","n","d",".","e","t","s","i",".","i","p","t","v","s","a","d","-","n","p","v","r","+","x","m","l">>, TRUE>>,
    <<<<"a","p","p","l","i","c","a","t","i","o","n","/","v","n","d",".","e","t","s","i",".","i","p","t","v","s","e","r","v","i","c","e","+","x","m","l">>, TRUE>>,
    <<<<"a","p","p","l","i","c","a","t","i","o","n","/","v","n","d",".","e","t","s","i",".","i","p","t","v","s","y","n","c","+","x","m","l">>, TRUE>>,
    <<<<"a","p","p","l","i","c","a","t","i","o","n","/","v","n","d",".","e","t","s","i",".","i","p","t","v","u","e","p","r","o","f","i","l","e","+","x","m","l">>, TRUE>>,
    <<<<"a","p","p","l","i","c","a","t","i","o","n","/","v","n","d",".","e","t","s","i",".","m","c","i","d","+","x","m","l">>, TRUE>>,
    <<<<"a","p","p","l","i","c","a","t","i","o","n","/","v","n","d",".","e","t","s","i",".","o","v","e","r","l","o","a","d","-","c","o","n","t","r","o","l","-","p","o","l","i","c","y","-","d","a","t","a","s","e","t","+","x","m","l">>, TRUE>>,
    <<<<"a","p","p","l","i","c","a","t","i","o","n","/","v","n","d",".","e","t","s","i",".","p","s","t","n","+","x","m","l">>, TRUE>>,
    <<<<"a","p","p","l","i","c","a","t","i","o","n","/","v","n","d",".","e","t","s","i",".","s","c","i","+","x","m","l">>, TRUE>>,
    <<<<"a","p","p","l","i","c","a","t","i","o","n","/","v","n","d",".","e","t","s","i",".","s","i","m","s","e","r","v","s","+","x","m","l">>, TRUE>>,
    <<<<"a","p","p","l","i","c","a","t","i","o","n","/","v","n","d",".","e","t","s","i",".","t","s","l","+","x","m","l">>, TRUE>>,
    <<<<"a","p","p","l","i","c","a","t","i","o","n","/","v","n","d",".","f","u","j","i","f","i","l","m",".","f","b",".","j","f","i","+","x","m","l">>, TRUE>>,
    <<<<"a","p","p","l","i","c","a","t","i","o","n","/","v","n","d",".","f","u","t","o","i","n","+","j","s","o","n">>, TRUE>>,
    <<<<"a","p","p","l","i","c","a","t","i","o","n","/","v","n","d",".","g","e","n","t","i","c","s",".","g","r","d","+","j","s","o","n">>, TRUE>>,
    <<<<"a","p","p","l","i","c","a","t","i","o","n","/","v","n","d",".","g","e","o","+","j","s","o","n">>, TRUE>>,
    <<<<"a","p","p","l","i","c","a","t","i","o","n","/","v","n","d",".","g","e","o","c","u","b","e","+","x","m","l">>, TRUE>>,
    <<<<"a","p","p","l","i","c","a","t","i","o","n","/","v","n","d",".","g","o","o","g","l","e","-","e","a","r","t","h",".","k","m","l","+","x","m","l">>, TRUE>>,
    <<<<"a","p","p","l","i","c","a","t","i","o","n","/","v","n","d",".","g","o","v",".","s","k",".","e","-","f","o","r","m","+","x","m","l">>, TRUE>>,
    <<<<"a","p","p","l","i","c","a","t","i","o","n","/","v","n","d",".","g","o","v",".","s","k",".","x","m","l","d","a","t","a","c","o","n","t","a","i","n","e","r","+","x","m","l">>, TRUE>>,
    <<<<"a","p","p","l","i","c","a","t","i","o","n","/","v","n","d",".","h","a","l","+","j","s","o","n">>, TRUE>>,
    <<<<"a","p","p","l","i","c","a","t","i","o","n","/","v","n","d",".","h","a","l","+","x","m","l">>, TRUE>>,
    <<<<"a","p","p","l","i","c","a","t","i","o","n","/","v","n","d",".","h","a","n","d","h","e","l","d","-","e","n","t","e","r","t","a","i","n","m","e","n","t","+","x","m","l">>, TRUE>>,
    <<<<"a","p","p","l","i","c","a","t","i","o","n","/","v","n","d",".","h","c","+","j","s","o","n">>, TRUE>>,
    <<<<"a","p","p","l","i","c","a","t","i","o","n","/","v","n","d",".","h","e","r","o","k","u","+","j","s","o","n">>, TRUE>>,
    <<<<"a","p","p","l","i","c","a","t","i","o","n","/","v","n","d",".","h","y","p","e","r","+","j","s","o","n">>, TRUE>>,
    <<<<"a","p","p","l","i","c","a","t","i","o","n","/","v","n","d",".","h","y","p","e","r","-","i","t","e","m","+","j","s","o","n">>, TRUE>>,
    <<<<"a","p","p","l","i","c","a","t","i","o","n","/","v","n","d",".","h","y","p","e","r","d","r","i","v","e","+","j","s","o","n">>, TRUE>>,
    <<<<"a","p","p","l","i","c","a","t","i","o","n","/","v","n","d",".","i","m","s",".","l","i","s",".","v","2",".","r","e","s","u","l","t","+","j","s","o","n">>, TRUE>>,
    <<<<"a","p","p","l","i","c","a","t","i","o","n","/","v","n","d",".","i","m","s",".","l","t","i",".","v","2",".","t","o","o","l","c","o","n","s","u","m","e","r","p","r","o","f","i","l","e","+","j","s","o","n">>, TRUE>>,
    <<<<"a","p","p","l","i","c","a","t","i","o","n","/","v","n","d",".","i","m","s",".","l","t","i",".","v","2",".","t","o","o","l","p","r","o","x","y","+","j","s","o","n">>, TRUE>>,
    <<<<"a","p","p","l","i","c","a","t","i","o","n","/","v","n","d",".","i","m","s",".","l","t","i",".","v","2",".","t","o","o","l","p","r","o","x","y",".","i","d","+","j","s","o","n">>, TRUE>>,
    <<<<"a","p","p","l","i","c","a","t","i","o","n","/","v","n","d",".","i","m","s",".","l","t","i",".","v","2",".","t","o","o","l","s","e","t","t","i","n","g","s","+","j","s","o","n">>, TRUE>>,
    <<<<"a","p","p","l","i","c","a","t","i","o","n","/","v","n","d",".","i","m","s",".","l","t","i",".","v","2",".","t","o","o","l","s","e","t","t","i","n","g","s",".","s","i","m","p","l","e","+","j","s","o","n">>, TRUE>>,
    <<<<"a","p","p","l","i","c","a","t","i","o","n","/","v","n","d",".","i","n","f","o","r","m","e","d","c","o","n","t","r","o","l",".","r","m","s","+","x","m","l">>, TRUE>>,
    <<<<"a","p","p","l","i","c","a","t","i","o","n","/","v","n","d",".","i","n","f","o","t","e","c","h",".","p","r","o","j","e","c","t","+","x","m","l">>, TRUE>>,
    <<<<"a","p","p","l","i","c","a","t","i","o","n","/","v","n","d",".","i","p","t","c",".","g","2",".","c","a","t","a","l","o","g","i","t","e","m","+","x","m","l">>, TRUE>>,
    <<<<"a","p","p","l","i","c","a","t","i","o","n","/","v","n","d",".","i","p","t","c",".","g","2",".","c","o","n","c","e","p","t","i","t","e","m","+","x","m","l">>, TRUE>>,
    <<<<"a","p","p","l","i","c","a","t","i","o","n","/","v","n","d",".","i","p","t","c",".","g","2",".","k","n","o","w","l","e","d","g","e","i","t","e","m","+","x","m","l">>, TRUE>>,
    <<<<"a","p","p","l","i","c","a","t","i","o","n","/","v","n","d",".","i","p","t","c",".","g","2",".","n","e","w","s","i","t","e","m","+","x","m","l">>, TRUE>>,
    <<<<"a","p","p","l","i","c","a","t","i","o","n","/","v","n","d",".","i","p","t","c",".","g","2",".","n","e","w","s","m","e","s","s","a","g","e","+","x","m","l">>, TRUE>>,
    <<<<"a","p","p","l","i","c","a","t","i","o","n","/","v","n","d",".","i","p","t","c",".","g","2",".","p","a","c","k","a","g","e","i","t","e","m","+","x","m","l">>, TRUE>>,
    <<<<"a","p","p","l","i","c","a","t","i","o","n","/","v","n","d",".","i","p","t","c",".","g","2",".","p","l","a","n","n","i","n","g","i","t","e","m","+","x","m","l">>, TRUE>>,
    <<<<"a","p","p","l","i","c","a","t","i","o","n","/","v","n","d",".","i","r","e","p","o","s","i","t","o","r","y",".","p","a","c","k","a","g","e","+","x","m","l">>, TRUE>>,
    <<<<"a","p","p","l","i","c","a","t","i","o","n","/","v","n","d",".","l","a","s",".","l","a","s","+","j","s","o","n">>, TRUE>>,
    <<<<"a","p","p","l","i","c","a","t","i","o","n","/","v","n","d",".","l","a","s",".","l","a","s","+","x","m","l">>, TRUE>>,
    <<<<"a","p","p","l","i","c","a","t","i","o","n","/","v","n","d",".","l","e","a","p","+","j","s","o","n">>, TRUE>>,
    <<<<"a","p","p","l","i","c","a","t","i","o","n","/","v","n","d",".","l","i","b","e","r","t","y","-","r","e","q","u","e","s","t","+","x","m","l">>, TRUE>>,
    <<<<"a","p","p","l","i","c","a","t","i","o","n","/","v","n","d",".","l","l","a","m","a","g","r","a","p","h","i","c","s",".","l","i","f","e","-","b","a","l","a","n","c","e",".","e","x","c","h","a","n","g","e","+","x","m","l">>, TRUE>>,
    <<<<"a","p","p","l","i","c","a","t","i","o","n","/","v","n","d",".","m","a","r","l","i","n",".","d","r","m",".","a","c","t","i","o","n","t","o","k","e","n","+","x","m","l">>, TRUE>>,
    <<<<"a","p","p","l","i","c","a","t","i","o","n","/","v","n","d",".","m","a","r","l","i","n",".","d","r","m",".","c","o","n","f","t","o","k","e","n","+","x","m","l">>, TRUE>>,
    <<<<"a","p","p","l","i","c","a","t","i","o","n","/","v","n","d",".","m","a","r","l","i","n",".","d","r","m",".","l","i","c","e","n","s","e","+","x","m","l">>, TRUE>>,
    <<<<"a","p","p","l","i","c","a","t","i","o","n","/","v","n","d",".","m","a","s","o","n","+","j","s","o","n">>, TRUE>>,
    <<<<"a","p","p","l","i","c","a","t","i","o","n","/","v","n","d",".","m","i","c","r","o","+","j","s","o","n">>, TRUE>>,
    <<<<"a","p","p","l","i","c","a","t","i","o","n","/","v","n","d",".","m","i","e","l","e","+","j","s","o","n">>, TRUE>>,
    <<<<"a","p","p","l","i","c","a","t","i","o","n","/","v","n","d",".","m","o","z","i","l","l","a",".","x","u","l","+","x","m","l">>, TRUE>>,
    <<<<"a","p","p","l","i","c","a","t","i","o","n","/","v","n","d",".","m","s","-","f","o","n","t","o","b","j","e","c","t">>, TRUE>>,
    <<<<"a","p","p","l","i","c","a","t","i","o","n","/","v","n","d",".","m","s","-","o","f","f","i","c","e",".","a","c","t","i","v","e","x","+","x","m","l">>, TRUE>>,
    <<<<"a","p","p","l","i","c","a","t","i","o","n","/","v","n","d",".","m","s","-","o","p","e","n","t","y","p","e">>, TRUE>>,
    <<<<"a","p","p","l","i","c","a","t","i","o","n","/","v","n","d",".","m","s","-","p","l","a","y","r","e","a","d","y",".","i","n","i","t","i","a","t","o","r","+","x","m","l">>, TRUE>>,
    <<<<"a","p","p","l","i","c","a","t","i","o","n","/","v","n","d",".","m","s","-","p","r","i","n","t","d","e","v","i","c","e","c","a","p","a","b","i","l","i","t","i","e","s","+","x","m","l">>, TRUE>>,
    <<<<"a","p","p","l","i","c","a","t","i","o","n","/","v","n","d",".","m","s","-","p","r","i","n","t","i","n","g",".","p","r","i","n","t","t","i","c","k","e","t","+","x","m","l">>, TRUE>>,
    <<<<"a","p","p","l","i","c","a","t","i","o","n","/","v","n","d",".","m","s","-","p","r","i","n","t","s","c","h","e","m","a","t","i","c","k","e","t","+","x","m","l">>, TRUE>>,
    <<<<"a","p","p","l","i","c","a","t","i","o","n","/","v","n","d",".","n","e","a","r","s","t",".","i","n","v","+","j","s","o","n">>, TRUE>>,
    <<<<"a","p","p","l","i","c","a","t","i","o","n","/","v","n","d",".","n","o","k","i","a",".","c","o","n","m","l","+","x","m","l">>, TRUE>>,
    <<<<"a","p","p","l","i","c","a","t","i","o","n","/","v","n","d",".","n","o","k","i","a",".","i","p","t","v",".","c","o","n","f","i","g","+","x","m","l">>, TRUE>>,
    <<<<"a","p","p","l","i","c","a","t","i","o","n","/","v","n","d",".","n","o","k","i","a",".","l","a","n","d","m","a","r","k","+","x","m","l">>, TRUE>>,
    <<<<"a","p","p","l","i","c","a","t","i","o","n","/","v","n","d",".","n","o","k","i","a",".","l","a","n","d","m","a","r","k","c","o","l","l","e","c","t","i","o","n","+","x","m","l">>, TRUE>>,
    <<<<"a","p","p","l","i","c","a","t","i","o","n","/","v","n","d",".","n","o","k","i","a",".","n","-","g","a","g","e",".","a","c","+","x","m","l">>, TRUE>>,
    <<<<"a","p","p","l","i","c","a","t","i","o","n","/","v","n","d",".","n","o","k","i","a",".","p","c","d","+","x","m","l">>, TRUE>>,
    <<<<"a","p","p","l","i","c","a","t","i","o","n","/","v","n","d",".","o","c","i",".","i","m","a","g","e",".","m","a","n","i","f","e","s","t",".","v","1","+","j","s","o","n">>, TRUE>>,
    <<<<"a","p","p","l","i","c","a","t","i","o","n","/","v","n","d",".","o","f","t","n",".","l","1","0","n","+","j","s","o","n">>, TRUE>>,
    <<<<"a","p","p","l","i","c","a","t","i","o","n","/","v","n","d",".","o","i","p","f",".","c","o","n","t","e","n","t","a","c","c","e","s","s","d","o","w","n","l","o","a","d","+","x","m","l">>, TRUE>>,
    <<<<"a","p","p","l","i","c","a","t","i","o","n","/","v","n","d",".","o","i","p","f",".","c","o","n","t","e","n","t","a","c","c","e","s","s","s","t","r","e","a","m","i","n","g","+","x","m","l">>, TRUE>>,
    <<<<"a","p","p","l","i","c","a","t","i","o","n","/","v","n","d",".","o","i","p","f",".","d","a","e",".","s","v","g","+","x","m","l">>, TRUE>>,
    <<<<"a","p","p","l","i","c","a","t","i","o","n","/","v","n","d",".","o","i","p","f",".","d","a","e",".","x","h","t","m","l","+","x","m","l">>, TRUE>>,
    <<<<"a","p","p","l","i","c","a","t","i","o","n","/","v","n","d",".","o","i","p","f",".","m","i","p","p","v","c","o","n","t","r","o","l","m","e","s","s","a","g","e","+","x","m","l">>, TRUE>>,
    <<<<"a","p","p","l","i","c","a","t","i","o","n","/","v","n","d",".","o","i","p","f",".","s","p","d","i","s","c","o","v","e","r","y","+","x","m","l">>, TRUE>>,
    <<<<"a","p","p","l","i","c","a","t","i","o","n","/","v","n","d",".","o","i","p","f",".","s","p","d","l","i","s","t","+","x","m","l">>, TRUE>>,
    <<<<"a","p","p","l","i","c","a","t","i","o","n","/","v","n","d",".","o","i","p","f",".","u","e","p","r","o","f","i","l","e","+","x","m","l">>, TRUE>>,
    <<<<"a","p","p","l","i","c","a","t","i","o","n","/","v","n","d",".","o","i","p","f",".","u","s","e","r","p","r","o","f","i","l","e","+","x","m","l">>, TRUE>>,
    <<<<"a","p","p","l","i","c","a","t","i","o","n","/","v","n","d",".","o","m","a",".","b","c","a","s","t",".","a","s","s","o","c","i","a","t","e","d","-","p","r","o","c","e","d","u","r","e","-","p","a","r","a","m","e","t","e","r","+","x","m","l">>, TRUE>>,
    <<<<"a","p","p","l","i","c","a","t","i","o","n","/","v","n","d",".","o","m","a",".","b","c","a","s","t",".","d","r","m","-","t","r","i","g","g","e","r","+","x","m","l">>, TRUE>>,
    <<<<"a","p","p","l","i","c","a","t","i","o","n","/","v","n","d",".","o","m","a",".","b","c","a","s","t",".","i","m","d","+","x","m","l">>, TRUE>>,
    <<<<"a","p","p","l","i","c","a","t","i","o","n","/","v","n","d",".","o","m","a",".","b","c","a","s","t",".","n","o","t","i","f","i","c","a","t","i","o","n","+","x","m","l">>, TRUE>>,
    <<<<"a","p","p","l","i","c","a","t","i","o","n","/","v","n","d",".","o","m","a",".","b","c","a","s","t",".","s","g","d","d","+","x","m","l">>, TRUE>>,
    <<<<"a","p","p","l","i","c","a","t","i","o","n","/","v","n","d",".","o","m","a",".","b","c","a","s","t",".","s","m","a","r","t","c","a","r","d","-","t","r","i","g","g","e","r","+","x","m","l">>, TRUE>>,
    <<<<"a","p","p","l","i","c","a","t","i","o","n","/","v","n","d",".","o","m","a",".","b","c","a","s","t",".","s","p","r","o","v","+","x","m","l">>, TRUE>>,
    <<<<"a","p","p","l","i","c","a","t","i","o","n","/","v","n","d",".","o","m","a",".","c","a","b","-","a","d","d","r","e","s","s","-","b","o","o","k","+","x","m","l">>, TRUE>>,
    <<<<"a","p","p","l","i","c","a","t","i","o","n","/","v","n","d",".","o","m","a",".","c","a","b","-","f","e","a","t","u","r","e","-","h","a","n","d","l","e","r","+","x","m","l">>, TRUE>>,
    <<<<"a","p","p","l","i","c","a","t","i","o","n","/","v","n","d",".","o","m","a",".","c","a","b","-","p","c","c","+","x","m","l">>, TRUE>>,
    <<<<"a","p","p","l","i","c","a","t","i","o","n","/","v","n","d",".","o","m","a",".","c","a","b","-","s","u","b","s","-","i","n","v","i","t","e","+","x","m","l">>, TRUE>>,
    <<<<"a","p","p","l","i","c","a","t","i","o","n","/","v","n","d",".","o","m","a",".","c","a","b","-","u","s","e","r","-","p","r","e","f","s","+","x","m","l">>, TRUE>>,
    <<<<"a","p","p","l","i","c","a","t","i","o","n","/","v","n","d",".","o","m","a",".","d","d","2","+","x","m","l">>, TRUE>>,
    <<<<"a","p","p","l","i","c","a","t","i","o","n","/","v","n","d",".","o","m","a",".","d","r","m",".","r","i","s","d","+","x","m","l">>, TRUE>>,
    <<<<"a","p","p","l","i","c","a","t","i","o","n","/","v","n","d",".","o","m","a",".","g","r","o","u","p","-","u","s","a","g","e","-","l","i","s","t","+","x","m","l">>, TRUE>>,
    <<<<"a","p","p","l","i","c","a","t","i","o","n","/","v","n","d",".","o","m","a",".","l","w","m","2","m","+","j","s","o","n">>, TRUE>>,
    <<<<"a","p","p","l","i","c","a","t","i","o","n","/","v","n","d",".","o","m","a",".","p","a","l","+","x","m","l">>, TRUE>>,
    <<<<"a","p","p","l","i","c","a","t","i","o","n","/","v","n","d",".","o","m","a",".","p","o","c",".","d","e","t","a","i","l","e","d","-","p","r","o","g","r","e","s","s","-","r","e","p","o","r","t","+","x","m","l">>, TRUE>>,
    <<<<"a","p","p","l","i","c","a","t","i","o","n","/","v","n","d",".","o","m","a",".","p","o","c",".","f","i","n","a","l","-","r","e","p","o","r","t","+","x","m","l">>, TRUE>>,
    <<<<"a","p","p","l","i","c","a","t","i","o","n","/","v","n","d",".","o","m","a",".","p","o","c",".","g","r","o","u","p","s","+","x","m","l">>, TRUE>>,
    <<<<"a","p","p","l","i","c","a","t","i","o","n","/","v","n","d",".","o","m","a",".","p","o","c",".","i","n","v","o","c","a","t","i","o","n","-","d","e","s","c","r","i","p","t","o","r","+","x","m","l">>, TRUE>>,
    <<<<"a","p","p","l","i","c","a","t","i","o","n","/","v","n","d",".","o","m","a",".","p","o","c",".","o","p","t","i","m","i","z","e","d","-","p","r","o","g","r","e","s","s","-","r","e","p","o","r","t","+","x","m","l">>, TRUE>>,
    <<<<"a","p","p","l","i","c","a","t","i","o","n","/","v","n","d",".","o","m","a",".","s","c","i","d","m",".","m","e","s","s","a","g","e","s","+","x","m","l">>, TRUE>>,
    <<<<"a","p","p","l","i","c","a","t","i","o","n","/","v","n","d",".","o","m","a",".","x","c","a","p","-","d","i","r","e","c","t","o","r","y","+","x","m","l">>, TRUE>>,
    <<<<"a","p","p","l","i","c","a","t","i","o","n","/","v","n","d",".","o","m","a","d","s","-","e","m","a","i","l","+","x","m","l">>, TRUE>>,
    <<<<"a","p","p","l","i","c","a","t","i","o","n","/","v","n","d",".","o","m","a","d","s","-","f","i","l","e","+","x","m","l">>, TRUE>>,
    <<<<"a","p","p","l","i","c","a","t","i","o","n","/","v","n","d",".","o","m","a","d","s","-","f","o","l","d","e","r","+","x","m","l">>, TRUE>>,
    <<<<"a","p","p","l","i","c","a","t","i","o","n","/","v","n","d",".","o","p","e","n","b","l","o","x",".","g","a","m","e","+","x","m","l">>, TRUE>>,
    <<<<"a","p","p","l","i","c","a","t","i","o","n","/","v","n","d",".","o","p","e","n","s","t","r","e","e","t","m","a","p",".","d","a","t","a","+","x","m","l">>, TRUE>>,
    <<<<"a","p","p","l","i","c","a","t","i","o","n","/","v","n","d",".","o","p","e","n","x","m","l","f","o","r","m","a","t","s","-","o","f","f","i","c","e","d","o","c","u","m","e","n","t",".","c","u","s","t","o","m","-","p","r","o","p","e","r","t","i","e","s","+","x","m","l">>, TRUE>>,
    <<<<"a","p","p","l","i","c","a","t","i","o","n","/","v","n","d",".","o","p","e","n","x","m","l","f","o","r","m","a","t","s","-","o","f","f","i","c","e","d","o","c","u","m","e","n","t",".","c","u","s","t","o","m","x","m","l","p","r","o","p","e","r","t","i","e","s","+","x","m","l">>, TRUE>>,
    <<<<"a","p","p","l","i","c","a","t","i","o","n","/","v","n","d",".","o","p","e","n","x","m","l","f","o","r","m","a","t","s","-","o","f","f","i","c","e","d","o","c","u","m","e","n","t",".","d","r","a","w","i","n","g","+","x","m","l">>, TRUE>>,
    <<<<"a","p","p","l","i","c","a","t","i","o","n","/","v","n","d",".","o","p","e","n","x","m","l","f","o","r","m","a","t","s","-","o","f","f","i","c","e","d","o","c","u","m","e","n","t",".","d","r","a","w","i","n","g","m","l",".","c","h","a","r","t","+","x","m","l">>, TRUE>>,
    <<<<"a","p","p","l","i","c","a","t","i","o","n","/","v","n","d",".","o","p","e","n","x","m","l","f","o","r","m","a","t","s","-","o","f","f","i","c","e","d","o","c","u","m","e","n","t",".","d","r","a","w","i","n","g","m","l",".","c","h","a","r","t","s","h","a","p","e","s","+","x","m","l">>, TRUE>>,
    <<<<"a","p","p","l","i","c","a","t","i","o","n","/","v","n","d",".","o","p","e","n","x","m","l","f","o","r","m","a","t","s","-","o","f","f","i","c","e","d","o","c","u","m","e","n","t",".","d","r","a","w","i","n","g","m","l",".","d","i","a","g","r","a","m","c","o","l","o","r","s","+","x","m","l">>, TRUE>>,
    <<<<"a","p","p","l","i","c","a","t","i","o","n","/","v","n","d",".","o","p","e","n","x","m","l","f","o","r","m","a","t","s","-","o","f","f","i","c","e","d","o","c","u","m","e","n","t",".","d","r","a","w","i","n","g","m","l",".","d","i","a","g","r","a","m","d","a","t","a","+","x","m","l">>, TRUE>>,
    <<<<"a","p","p","l","i","c","a","t","i","o","n","/","v","n","d",".","o","p","e","n","x","m","l","f","o","r","m","a","t","s","-","o","f","f","i","c","e","d","o","c","u","m","e","n","t",".","d","r","a","w","i","n","g","m","l",".","d","i","a","g","r","a","m","l","a","y","o","u","t","+","x","m","l">>, TRUE>>,
    <<<<"a","p","p","l","i","c","a","t","i","o","n","/","v","n","d",".","o","p","e","n","x","m","l","f","o","r","m","a","t","s","-","o","f","f","i","c","e","d","o","c","u","m","e","n","t",".","d","r","a","w","i","n","g","m","l",".","d","i","a","g","r","a","m","s","t","y","l","e","+","x","m","l">>, TRUE>>,
    <<<<"a","p","p","l","i","c","a","t","i","o","n","/","v","n","d",".","o","p","e","n","x","m","l","f","o","r","m","a","t","s","-","o","f","f","i","c","e","d","o","c","u","m","e","n","t",".","e","x","t","e","n","d","e","d","-","p","r","o","p","e","r","t","i","e","s","+","x","m","l">>, TRUE>>,
    <<<<"a","p","p","l","i","c","a","t","i","o","n","/","v","n","d",".","o","p","e","n","x","m","l","f","o","r","m","a","t","s","-","o","f","f","i","c","e","d","o","c","u","m","e","n","t",".","p","r","e","s","e","n","t","a","t","i","o","n","m","l",".","c","o","m","m","e","n","t","a","u","t","h","o","r","s","+","x","m","l">>, TRUE>>,
    <<<<"a","p","p","l","i","c","a","t","i","o","n","/","v","n","d",".","o","p","e","n","x","m","l","f","o","r","m","a","t","s","-","o","f","f","i","c","e","d","o","c","u","m","e","n","t",".","p","r","e","s","e","n","t","a","t","i","o","n","m","l",".","c","o","m","m","e","n","t","s","+","x","m","l">>, TRUE>>,
    <<<<"a","p","p","l","i","c","a","t","i","o","n","/","v","n","d",".","o","p","e","n","x","m","l","f","o","r","m","a","t","s","-","o","f","f","i","c","e","d","o","c","u","m","e","n","t",".","p","r","e","s","e","n","t","a","t","i","o","n","m","l",".","h","a","n","d","o","u","t","m","a","s","t","e","r","+","x","m","l">>, TRUE>>,
    <<<<"a","p","p","l","i","c","a","t","i","o","n","/","v","n","d",".","o","p","e","n","x","m","l","f","o","r","m","a","t","s","-","o","f","f","i","c","e","d","o","c","u","m","e","n","t",".","p","r","e","s","e","n","t","a","t","i","o","n","m","l",".","n","o","t","e","s","m","a","s","t","e","r","+","x","m","l">>, TRUE>>,
    <<<<"a","p","p","l","i","c","a","t","i","o","n","/","v","n","d",".","o","p","e","n","x","m","l","f","o","r","m","a","t","s","-","o","f","f","i","c","e","d","o","c","u","m","e","n","t",".","p","r","e","s","e","n","t","a","t","i","o","n","m","l",".","n","o","t","e","s","s","l","i","d","e","+","x","m","l">>, TRUE>>,
    <<<<"a","p","p","l","i","c","a","t","i","o","n","/","v","n","d",".","o","p","e","n","x","m","l","f","o","r","m","a","t","s","-","o","f","f","i","c","e","d","o","c","u","m","e","n","t",".","p","r","e","s","e","n","t","a","t","i","o","n","m","l",".","p","r","e","s","e","n","t","a","t","i","o","n",".","m","a","i","n","+","x","m","l">>, TRUE>>,
    <<<<"a","p","p","l","i","c","a","t","i","o","n","/","v","n","d",".","o","p","e","n","x","m","l","f","o","r","m","a","t","s","-","o","f","f","i","c","e","d","o","c","u","m","e","n","t",".","p","r","e","s","e","n","t","a","t","i","o","n","m","l",".","p","r","e","s","p","r","o","p","s","+","x","m","l">>, TRUE>>,
    <<<<"a","p","p","l","i","c","a","t","i","o","n","/","v","n","d",".","o","p","e","n","x","m","l","f","o","r","m","a","t","s","-","o","f","f","i","c","e","d","o","c","u","m","e","n","t",".","p","r","e","s","e","n","t","a","t","i","o","n","m","l",".","s","l","i","d","e","+","x","m","l">>, TRUE>>,
    <<<<"a","p","p","l","i","c","a","t","i","o","n","/","v","n","d",".","o","p","e","n","x","m","l","f","o","r","m","a","t","s","-","o","f","f","i","c","e","d","o","c","u","m","e","n","t",".","p","r","e","s","e","n","t","a","t","i","o","n","m","l",".","s","l","i","d","e","l","a","y","o","u","t","+","x","m","l">>, TRUE>>,
    <<<<"a","p","p","l","i","c","a","t","i","o","n","/","v","n","d",".","o","p","e","n","x","m","l","f","o","r","m","a","t","s","-","o","f","f","i","c","e","d","o","c","u","m","e","n","t",".","p","r","e","s","e","n","t","a","t","i","o","n","m","l",".","s","l","i","d","e","m","a","s","t","e","r","+","x","m","l">>, TRUE>>,
    <<<<"a","p","p","l","i","c","a","t","i","o","n","/","v","n","d",".","o","p","e","n","x","m","l","f","o","r","m","a","t","s","-","o","f","f","i","c","e","d","o","c","u","m","e","n","t",".","p","r","e","s","e","n","t","a","t","i","o","n","m","l",".","s","l","i","d","e","s","h","o","w",".","m","a","i","n","+","x","m","l">>, TRUE>>,
    <<<<"a","p","p","l","i","c","a","t","i","o","n","/","v","n","d",".","o","p","e","n","x","m","l","f","o","r","m","a","t","s","-","o","f","f","i","c","e","d","o","c","u","m","e","n","t",".","p","r","e","s","e","n","t","a","t","i","o","n","m","l",".","s","l","i","d","e","u","p","d","a","t","e","i","n","f","o","+","x","m","l">>, TRUE>>,
    <<<<"a","p","p","l","i","c","a","t","i","o","n","/","v","n","d",".","o","p","e","n","x","m","l","f","o","r","m","a","t","s","-","o","f","f","i","c","e","d","o","c","u","m","e","n","t",".","p","r","e","s","e","n","t","a","t","i","o","n","m","l",".","t","a","b","l","e","s","t","y","l","e","s","+","x","m","l">>, TRUE>>,
    <<<<"a","p","p","l","i","c","a","t","i","o","n","/","v","n","d",".","o","p","e","n","x","m","l","f","o","r","m","a","t","s","-","o","f","f","i","c","e","d","o","c","u","m","e","n","t",".","p","r","e","s","e","n","t","a","t","i","o","n","m","l",".","t","a","g","s","+","x","m","l">>, TRUE>>,
    <<<<"a","p","p","l","i","c","a","t","i","o","n","/","v","n","d",".","o","p","e","n","x","m","l","f","o","r","m","a","t","s","-","o","f","f","i","c","e","d","o","c","u","m","e","n","t",".","p","r","e","s","e","n","t","a","t","i","o","n","m","l",".","t","e","m","p","l","a","t","e",".","m","a","i","n","+","x","m","l">>, TRUE>>,
    <<<<"a","p","p","l","i","c","a","t","i","o","n","/","v","n","d",".","o","p","e","n","x","m","l","f","o","r","m","a","t","s","-","o","f","f","i","c","e","d","o","c","u","m","e","n","t",".","p","r","e","s","e","n","t","a","t","i","o","n","m","l",".","v","i","e","w","p","r","o","p","s","+","x","m","l">>, TRUE>>,
    <<<<"a","p","p","l","i","c","a","t","i","o","n","/","v","n","d",".","o","p","e","n","x","m","l","f","o","r","m","a","t","s","-","o","f","f","i","c","e","d","o","c","u","m","e","n","t",".","s","p","r","e","a","d","s","h","e","e","t","m","l",".","c","a","l","c","c","h","a","i","n","+","x","m","l">>, TRUE>>,
    <<<<"a","p","p","l","i","c","a","t","i","o","n","/","v","n","d",".","o","p","e","n","x","m","l","f","o","r","m","a","t","s","-","o","f","f","i","c","e","d","o","c","u","m","e","n","t",".","s","p","r","e","a","d","s","h","e","e","t","m","l",".","c","h","a","r","t","s","h","e","e","t","+","x","m","l">>, TRUE>>,
    <<<<"a","p","p","l","i","c","a","t","i","o","n","/","v","n","d",".","o","p","e","n","x","m","l","f","o","r","m","a","t","s","-","o","f","f","i","c","e","d","o","c","u","m","e","n","t",".","s","p","r","e","a","d","s","h","e","e","t","m","l",".","c","o","m","m","e","n","t","s","+","x","m","l">>, TRUE>>,
    <<<<"a","p","p","l","i","c","a","t","i","o","n","/","v","n","d",".","o","p","e","n","x","m","l","f","o","r","m","a","t","s","-","o","f","f","i","c","e","d","o","c","u","m","e","n","t",".","s","p","r","e","a","d","s","h","e","e","t","m","l",".","c","o","n","n","e","c","t","i","o","n","s","+","x","m","l">>, TRUE>>,
    <<<<"a","p","p","l","i","c","a","t","i","o","n","/","v","n","d",".","o","p","e","n","x","m","l","f","o","r","m","a","t","s","-","o","f","f","i","c","e","d","o","c","u","m","e","n","t",".","s","p","r","e","a","d","s","h","e","e","t","m","l",".","d","i","a","l","o","g","s","h","e","e","t","+","x","m","l">>, TRUE>>,
    <<<<"a","p","p","l","i","c","a","t","i","o","n","/","v","n","d",".","o","p","e","n","x","m","l","f","o","r","m","a","t","s","-","o","f","f","i","c","e","d","o","c","u","m","e","n","t",".","s","p","r","e","a","d","s","h","e","e","t","m","l",".","e","x","t","e","r","n","a","l","l","i","n","k","+","x","m","l">>, TRUE>>,
    <<<<"a","p","p","l","i","c","a","t","i","o","n","/","v","n","d",".","o","p","e","n","x","m","l","f","o","r","m","a","t","s","-","o","f","f","i","c","e","d","o","c","u","m","e","n","t",".","s","p","r","e","a","d","s","h","e","e","t","m","l",".","p","i","v","o","t","c","a","c","h","e","d","e","f","i","n","i","t","i","o","n","+","x","m","l">>, TRUE>>,
    <<<<"a","p","p","l","i","c","a","t","i","o","n","/","v","n","d",".","o","p","e","n","x","m","l","f","o","r","m","a","t","s","-","o","f","f","i","c","e","d","o","c","u","m","e","n","t",".","s","p","r","e","a","d","s","h","e","e","t","m","l",".","p","i","v","o","t","c","a","c","h","e","r","e","c","o","r","d","s","+","x","m","l">>, TRUE>>,
    <<<<"a","p","p","l","i","c","a","t","i","o","n","/","v","n","d",".","o","p","e","n","x","m","l","f","o","r","m","a","t","s","-","o","f","f","i","c","e","d","o","c","u","m","e","n","t",".","s","p","r","e","a","d","s","h","e","e","t","m","l",".","p","i","v","o","t","t","a","b","l","e","+","x","m","l">>, TRUE>>,
    <<<<"a","p","p","l","i","c","a","t","i","o","n","/","v","n","d",".","o","p","e","n","x","m","l","f","o","r","m","a","t","s","-","o","f","f","i","c","e","d","o","c","u","m","e","n","t",".","s","p","r","e","a","d","s","h","e","e","t","m","l",".","q","u","e","r","y","t","a","b","l","e","+","x","m","l">>, TRUE>>,
    <<<<"a","p","p","l","i","c","a","t","i","o","n","/","v","n","d",".","o","p","e","n","x","m","l","f","o","r","m","a","t","s","-","o","f","f","i","c","e","d","o","c","u","m","e","n","t",".","s","p","r","e","a","d","s","h","e","e","t","m","l",".","r","e","v","i","s","i","o","n","h","e","a","d","e","r","s","+","x","m","l">>, TRUE>>,
    <<<<"a","p","p","l","i","c","a","t","i","o","n","/","v","n","d",".","o","p","e","n","x","m","l","f","o","r","m","a","t","s","-","o","f","f","i","c","e","d","o","c","u","m","e","n","t",".","s","p","r","e","a","d","s","h","e","e","t","m","l",".","r","e","v","i","s","i","o","n","l","o","g","+","x","m","l">>, TRUE>>,
    <<<<"a","p","p","l","i","c","a","t","i","o","n","/","v","n","d",".","o","p","e","n","x","m","l","f","o","r","m","a","t","s","-","o","f","f","i","c","e","d","o","c","u","m","e","n","t",".","s","p","r","e","a","d","s","h","e","e","t","m","l",".","s","h","a","r","e","d","s","t","r","i","n","g","s","+","x","m","l">>, TRUE>>,
    <<<<"a","p","p","l","i","c","a","t","i","o","n","/","v","n","d",".","o","p","e","n","x","m","l","f","o","r","m","a","t","s","-","o","f","f","i","c","e","d","o","c","u","m","e","n","t",".","s","p","r","e","a","d","s","h","e","e","t","m","l",".","s","h","e","e","t",".","m","a","i","n","+","x","m","l">>, TRUE>>,
    <<<<"a","p","p","l","i","c","a","t","i","o","n","/","v","n","d",".","o","p","e","n","x","m","l","f","o","r","m","a","t","s","-","o","f","f","i","c","e","d","o","c","u","m","e","n","t",".","s","p","r","e","a","d","s","h","e","e","t","m","l",".","s","h","e","e","t","m","e","t","a","d","a","t","a","+","x","m","l">>, TRUE>>,
    <<<<"a","p","p","l","i","c","a","t","i","o","n","/","v","n","d",".","o","p","e","n","x","m","l","f","o","r","m","a","t","s","-","o","f","f","i","c","e","d","o","c","u","m","e","n","t",".","s","p","r","e","a","d","s","h","e","e","t","m","l",".","s","t","y","l","e","s","+","x","m","l">>, TRUE>>,
    <<<<"a","p","p","l","i","c","a","t","i","o","n","/","v","n","d",".","o","p","e","n","x","m","l","f","o","r","m","a","t","s","-","o","f","f","i","c","e","d","o","c","u","m","e","n","t",".","s","p","r","e","a","d","s","h","e","e","t","m","l",".","t","a","b","l","e","+","x","m","l">>, TRUE>>,
    <<<<"a","p","p","l","i","c","a","t","i","o","n","/","v","n","d",".","o","p","e","n","x","m","l","f","o","r","m","a","t","s","-","o","f","f","i","c","e","d","o","c","u","m","e","n","t",".","s","p","r","e","a","d","s","h","e","e","t","m","l",".","t","a","b","l","e","s","i","n","g","l","e","c","e","l","l","s","+","x","m","l">>, TRUE>>,
    <<<<"a","p","p","l","i","c","a","t","i","o","n","/","v","n","d",".","o","p","e","n","x","m","l","f","o","r","m","a","t","s","-","o","f","f","i","c","e","d","o","c","u","m","e","n","t",".","s","p","r","e","a","d","s","h","e","e","t","m","l",".","t","e","m","p","l","a","t","e",".","m","a","i","n","+","x","m","l">>, TRUE>>,
    <<<<"a","p","p","l","i","c","a","t","i","o","n","/","v","n","d",".","o","p","e","n","x","m","l","f","o","r","m","a","t","s","-","o","f","f","i","c","e","d","o","c","u","m","e","n","t",".","s","p","r","e","a","d","s","h","e","e","t","m","l",".","u","s","e","r","n","a","m","e","s","+","x","m","l">>, TRUE>>,
    <<<<"a","p","p","l","i","c","a","t","i","o","n","/","v","n","d",".","o","p","e","n","x","m","l","f","o","r","m","a","t","s","-","o","f","f","i","c","e","d","o","c","u","m","e","n","t",".","s","p","r","e","a","d","s","h","e","e","t","m","l",".","v","o","l","a","t","i","l","e","d","e","p","e","n","d","e","n","c","i","e","s","+","x","m","l">>, TRUE>>,
    <<<<"a","p","p","l","i","c","a","t","i","o","n","/","v","n","d",".","o","p","e","n","x","m","l","f","o","r","m","a","t","s","-","o","f","f","i","c","e","d","o","c","u","m","e","n","t",".","s","p","r","e","a","d","s","h","e","e","t","m","l",".","w","o","r","k","s","h","e","e","t","+","x","m","l">>, TRUE>>,
    <<<<"a","p","p","l","i","c","a","t","i","o","n","/","v","n","d",".","o","p","e","n","x","m","l","f","o","r","m","a","t","s","-","o","f","f","i","c","e","d","o","c","u","m","e","n","t",".","t","h","e","m","e","+","x","m","l">>, TRUE>>,
    <<<<"a","p","p","l","i","c","a","t","i","o","n","/","v","n","d",".","o","p","e","n","x","m","l","f","o","r","m","a","t","s","-","o","f","f","i","c","e","d","o","c","u","m","e","n","t",".","t","h","e","m","e","o","v","e","r","r","i","d","e","+","x","m","l">>, TRUE>>,
    <<<<"a","p","p","l","i","c","a","t","i","o","n","/","v","n","d",".","o","p","e","n","x","m","l","f","o","r","m","a","t","s","-","o","f","f","i","c","e","d","o","c","u","m","e","n","t",".","w","o","r","d","p","r","o","c","e","s","s","i","n","g","m","l",".","c","o","m","m","e","n","t","s","+","x","m","l">>, TRUE>>,
    <<<<"a","p","p","l","i","c","a","t","i","o","n","/","v","n","d",".","o","p","e","n","x","m","l","f","o","r","m","a","t","s","-","o","f","f","i","c","e","d","o","c","u","m","e","n","t",".","w","o","r","d","p","r","o","c","e","s","s","i","n","g","m","l",".","d","o","c","u","m","e","n","t",".","g","l","o","s","s","a","r","y","+","x","m","l">>, TRUE>>,
    <<<<"a","p","p","l","i","c","a","t","i","o","n","/","v","n","d",".","o","p","e","n","x","m","l","f","o","r","m","a","t","s","-","o","f","f","i","c","e","d","o","c","u","m","e","n","t",".","w","o","r","d","p","r","o","c","e","s","s","i","n","g","m","l",".","d","o","c","u","m","e","n","t",".","m","a","i","n","+","x","m","l">>, TRUE>>,
    <<<<"a","p","p","l","i","c","a","t","i","o","n","/","v","n","d",".","o","p","e","n","x","m","l","f","o","r","m","a","t","s","-","o","f","f","i","c","e","d","o","c","u","m","e","n","t",".","w","o","r","d","p","r","o","c","e","s","s","i","n","g","m","l",".","e","n","d","n","o","t","e","s","+","x","m","l">>, TRUE>>,
    <<<<"a","p","p","l","i","c","a","t","i","o","n","/","v","n","d",".","o","p","e","n","x","m","l","f","o","r","m","a","t","s","-","o","f","f","i","c","e","d","o","c","u","m","e","n","t",".","w","o","r","d","p","r","o","c","e","s","s","i","n","g","m","l",".","f","o","n","t","t","a","b","l","e","+","x","m","l">>, TRUE>>,
    <<<<"a","p","p","l","i","c","a","t","i","o","n","/","v","n","d",".","o","p","e","n","x","m","l","f","o","r","m","a","t","s","-","o","f","f","i","c","e","d","o","c","u","m","e","n","t",".","w","o","r","d","p","r","o","c","e","s","s","i","n","g","m","l",".","f","o","o","t","e","r","+","x","m","l">>, TRUE>>,
    <<<<"a","p","p","l","i","c","a","t","i","o","n","/","v","n","d",".","o","p","e","n","x","m","l","f","o","r","m","a","t","s","-","o","f","f","i","c","e","d","o","c","u","m","e","n","t",".","w","o","r","d","p","r","o","c","e","s","s","i","n","g","m","l",".","f","o","o","t","n","o","t","e","s","+","x","m","l">>, TRUE>>,
    <<<<"a","p","p","l","i","c","a","t","i","o","n","/","v","n","d",".","o","p","e","n","x","m","l","f","o","r","m","a","t","s","-","o","f","f","i","c","e","d","o","c","u","m","e","n","t",".","w","o","r","d","p","r","o","c","e","s","s","i","n","g","m","l",".","n","u","m","b","e","r","i","n","g","+","x","m","l">>, TRUE>>,
    <<<<"a","p","p","l","i","c","a","t","i","o","n","/","v","n","d",".","o","p","e","n","x","m","l","f","o","r","m","a","t","s","-","o","f","f","i","c","e","d","o","c","u","m","e","n","t",".","w","o","r","d","p","r","o","c","e","s","s","i","n","g","m","l",".","s","e","t","t","i","n","g","s","+","x","m","l">>, TRUE>>,
    <<<<"a","p","p","l","i","c","a","t","i","o","n","/","v","n","d",".","o","p","e","n","x","m","l","f","o","r","m","a","t","s","-","o","f","f","i","c","e","d","o","c","u","m","e","n","t",".","w","o","r","d","p","r","o","c","e","s","s","i","n","g","m","l",".","s","t","y","l","e","s","+","x","m","l">>, TRUE>>,
    <<<<"a","p","p","l","i","c","a","t","i","o","n","/","v","n","d",".","o","p","e","n","x","m","l","f","o","r","m","a","t","s","-","o","f","f","i","c","e","d","o","c","u","m","e","n","t",".","w","o","r","d","p","r","o","c","e","s","s","i","n","g","m","l",".","t","e","m","p","l","a","t","e",".","m","a","i","n","+","x","m","l">>, TRUE>>,
    <<<<"a","p","p","l","i","c","a","t","i","o","n","/","v","n","d",".","o","p","e","n","x","m","l","f","o","r","m","a","t","s","-","o","f","f","i","c","e","d","o","c","u","m","e","n","t",".","w","o","r","d","p","r","o","c","e","s","s","i","n","g","m","l",".","w","e","b","s","e","t","t","i","n","g","s","+","x","m","l">>, TRUE>>,
    <<<<"a","p","p","l","i","c","a","t","i","o","n","/","v","n","d",".","o","p","e","n","x","m","l","f","o","r","m","a","t","s","-","p","a","c","k","a","g","e",".","c","o","r","e","-","p","r","o","p","e","r","t","i","e","s","+","x","m","l">>, TRUE>>,
    <<<<"a","p","p","l","i","c","a","t","i","o","n","/","v","n","d",".","o","p","e","n","x","m","l","f","o","r","m","a","t","s","-","p","a","c","k","a","g","e",".","d","i","g","i","t","a","l","-","s","i","g","n","a","t","u","r","e","-","x","m","l","s","i","g","n","a","t","u","r","e","+","x","m","l">>, TRUE>>,
    <<<<"a","p","p","l","i","c","a","t","i","o","n","/","v","n","d",".","o","p","e","n","x","m","l","f","o","r","m","a","t","s","-","p","a","c","k","a","g","e",".","r","e","l","a","t","i","o","n","s","h","i","p","s","+","x","m","l">>, TRUE>>,
    <<<<"a","p","p","l","i","c","a","t","i","o","n","/","v","n","d",".","o","r","a","c","l","e",".","r","e","s","o","u","r","c","e","+","j","s","o","n">>, TRUE>>,
    <<<<"a","p","p","l","i","c","a","t","i","o","n","/","v","n","d",".","o","t","p","s",".","c","t","-","k","i","p","+","x","m","l">>, TRUE>>,
    <<<<"a","p","p","l","i","c","a","t","i","o","n","/","v","n","d",".","p","a","g","e","r","d","u","t","y","+","j","s","o","n">>, TRUE>>,
    <<<<"a","p","p","l","i","c","a","t","i","o","n","/","v","n","d",".","p","o","c",".","g","r","o","u","p","-","a","d","v","e","r","t","i","s","e","m","e","n","t","+","x","m","l">>, TRUE>>,
    <<<<"a","p","p","l","i","c","a","t","i","o","n","/","v","n","d",".","p","w","g","-","x","h","t","m","l","-","p","r","i","n","t","+","x","m","l">>, TRUE>>,
    <<<<"a","p","p","l","i","c","a","t","i","o","n","/","v","n","d",".","r","a","d","i","s","y","s",".","m","o","m","l","+","x","m","l">>, TRUE>>,
    <<<<"a","p","p","l","i","c","a","t","i","o","n","/","v","n","d",".","r","a","d","i","s","y","s",".","m","s","m","l","+","x","m","l">>, TRUE>>,
    <<<<"a","p","p","l","i","c","a","t","i","o","n","/","v","n","d",".","r","a","d","i","s","y","s",".","m","s","m","l","-","a","u","d","i","t","+","x","m","l">>, TRUE>>,
    <<<<"a","p","p","l","i","c","a","t","i","o","n","/","v","n","d",".","r","a","d","i","s","y","s",".","m","s","m","l","-","a","u","d","i","t","-","c","o","n","f","+","x","m","l">>, TRUE>>,
    <<<<"a","p","p","l","i","c","a","t","i","o","n","/","v","n","d",".","r","a","d","i","s","y","s",".","m","s","m","l","-","a","u","d","i","t","-","c","o","n","n","+","x","m","l">>, TRUE>>,
    <<<<"a","p","p","l","i","c","a","t","i","o","n","/","v","n","d",".","r","a","d","i","s","y","s",".","m","s","m","l","-","a","u","d","i","t","-","d","i","a","l","o","g","+","x","m","l">>, TRUE>>,
    <<<<"a","p","p","l","i","c","a","t","i","o","n","/","v","n","d",".","r","a","d","i","s","y","s",".","m","s","m","l","-","a","u","d","i","t","-","s","t","r","e","a","m","+","x","m","l">>, TRUE>>,
    <<<<"a","p","p","l","i","c","a","t","i","o","n","/","v","n","d",".","r","a","d","i","s","y","s",".","m","s","m","l","-","c","o","n","f","+","x","m","l">>, TRUE>>,
    <<<<"a","p","p","l","i","c","a","t","i","o","n","/","v","n","d",".","r","a","d","i","s","y","s",".","m","s","m","l","-","d","i","a","l","o","g","+","x","m","l">>, TRUE>>,
    <<<<"a","p","p","l","i","c","a","t","i","o","n","/","v","n","d",".","r","a","d","i","s","y","s",".","m","s","m","l","-","d","i","a","l","o","g","-","b","a","s","e","+","x","m","l">>, TRUE>>,
    <<<<"a","p","p","l","i","c","a","t","i","o","n","/","v","n","d",".","r","a","d","i","s","y","s",".","m","s","m","l","-","d","i","a","l","o","g","-","f","a","x","-","d","e","t","e","c","t","+","x","m","l">>, TRUE>>,
    <<<<"a","p","p","l","i","c","a","t","i","o","n","/","v","n","d",".","r","a","d","i","s","y","s",".","m","s","m","l","-","d","i","a","l","o","g","-","f","a","x","-","s","e","n","d","r","e","c","v","+","x","m","l">>, TRUE>>,
    <<<<"a","p","p","l","i","c","a","t","i","o","n","/","v","n","d",".","r","a","d","i","s","y","s",".","m","s","m","l","-","d","i","a","l","o","g","-","g","r","o","u","p","+","x","m","l">>, TRUE>>,
    <<<<"a","p","p","l","i","c","a","t","i","o","n","/","v","n","d",".","r","a","d","i","s","y","s",".","m","s","m","l","-","d","i","a","l","o","g","-","s","p","e","e","c","h","+","x","m","l">>, TRUE>>,
    <<<<"a","p","p","l","i","c","a","t","i","o","n","/","v","n","d",".","r","a","d","i","s","y","s",".","m","s","m","l","-","d","i","a","l","o","g","-","t","r","a","n","s","f","o","r","m","+","x","m","l">>, TRUE>>,
    <<<<"a","p","p","l","i","c","a","t","i","o","n","/","v","n","d",".","r","e","c","o","r","d","a","r","e",".","m","u","s","i","c","x","m","l","+","x","m","l">>, TRUE>>,
    <<<<"a","p","p","l","i","c","a","t","i","o","n","/","v","n","d",".","r","e","s","t","f","u","l","+","j","s","o","n">>, TRUE>>,
    <<<<"a","p","p","l","i","c","a","t","i","o","n","/","v","n","d",".","r","o","u","t","e","6","6",".","l","i","n","k","6","6","+","x","m","l">>, TRUE>>,
    <<<<"a","p","p","l","i","c","a","t","i","o","n","/","v","n","d",".","s","e","i","s","+","j","s","o","n">>, TRUE>>,
    <<<<"a","p","p","l","i","c","a","t","i","o","n","/","v","n","d",".","s","h","o","o","t","p","r","o","o","f","+","j","s","o","n">>, TRUE>>,
    <<<<"a","p","p","l","i","c","a","t","i","o","n","/","v","n","d",".","s","h","o","p","k","i","c","k","+","j","s","o","n">>, TRUE>>,
    <<<<"a","p","p","l","i","c","a","t","i","o","n","/","v","n","d",".","s","i","r","e","n","+","j","s","o","n">>, TRUE>>,
    <<<<"a","p","p","l","i","c","a","t","i","o","n","/","v","n","d",".","s","o","f","t","w","a","r","e","6","0","2",".","f","i","l","l","e","r",".","f","o","r","m","+","x","m","l">>, TRUE>>,
    <<<<"a","p","p","l","i","c","a","t","i","o","n","/","v","n","d",".","s","o","l","e","n","t",".","s","d","k","m","+","x","m","l">>, TRUE>>,
    <<<<"a","p","p","l","i","c","a","t","i","o","n","/","v","n","d",".","s","u","n",".","w","a","d","l","+","x","m","l">>, TRUE>>,
    <<<<"a","p","p","l","i","c","a","t","i","o","n","/","v","n","d",".","s","y","c","l","e","+","x","m","l">>, TRUE>>,
    <<<<"a","p","p","l","i","c","a","t","i","o","n","/","v","n","d",".","s","y","n","c","m","l","+","x","m","l">>, TRUE>>,
    <<<<"a","p","p","l","i","c","a","t","i","o","n","/","v","n","d",".","s","y","n","c","m","l",".","d","m","+","x","m","l">>, TRUE>>,
    <<<<"a","p","p","l","i","c","a","t","i","o","n","/","v","n","d",".","s","y","n","c","m","l",".","d","m","d","d","f","+","x","m","l">>, TRUE>>,
    <<<<"a","p","p","l","i","c","a","t","i","o","n","/","v","n","d",".","s","y","n","c","m","l",".","d","m","t","n","d","s","+","x","m","l">>, TRUE>>,
    <<<<"a","p","p","l","i","c","a","t","i","o","n","/","v","n","d",".","t","a","b","l","e","s","c","h","e","m","a","+","j","s","o","n">>, TRUE>>,
    <<<<"a","p","p","l","i","c","a","t","i","o","n","/","v","n","d",".","t","h","i","n","k","-","c","e","l","l",".","p","p","t","t","c","+","j","s","o","n">>, TRUE>>,
    <<<<"a","p","p","l","i","c","a","t","i","o","n","/","v","n","d",".","t","m","d",".","m","e","d","i","a","f","l","e","x",".","a","p","i","+","x","m","l">>, TRUE>>,
    <<<<"a","p","p","l","i","c","a","t","i","o","n","/","v","n","d",".","u","o","m","l","+","x","m","l">>, TRUE>>,
    <<<<"a","p","p","l","i","c","a","t","i","o","n","/","v","n","d",".","v","e","l","+","j","s","o","n">>, TRUE>>,
    <<<<"a","p","p","l","i","c","a","t","i","o","n","/","v","n","d",".","w","v",".","c","s","p","+","x","m","l">>, TRUE>>,
    <<<<"a","p","p","l","i","c","a","t","i","o","n","/","v","n","d",".","w","v",".","s","s","p","+","x","m","l">>, TRUE>>,
    <<<<"a","p","p","l","i","c","a","t","i","o","n","/","v","n","d",".","x","a","c","m","l","+","j","s","o","n">>, TRUE>>,
    <<<<"a","p","p","l","i","c","a","t","i","o","n","/","v","n","d",".","x","m","i","+","x","m","l">>, TRUE>>,
    <<<<"a","p","p","l","i","c","a","t","i","o","n","/","v","n","d",".","y","a","m","a","h","a",".","o","p","e","n","s","c","o","r","e","f","o","r","m","a","t",".","o","s","f","p","v","g","+","x","m","l">>, TRUE>>,
    <<<<"a","p","p","l","i","c","a","t","i","o","n","/","v","n","d",".","z","z","a","z","z",".","d","e","c","k","+","x","m","l">>, TRUE>>,
    <<<<"a","p","p","l","i","c","a","t","i","o","n","/","v","o","i","c","e","x","m","l","+","x","m","l">>, TRUE>>,
    <<<<"a","p","p","l","i","c","a","t","i","o","n","/","v","o","u","c","h","e","r","-","c","m","s","+","j","s","o","n">>, TRUE>>,
    <<<<"a","p","p","l","i","c","a","t","i","o","n","/","w","a","s","m">>, TRUE>>,
    <<<<"a","p","p","l","i","c","a","t","i","o","n","/","w","a","t","c","h","e","r","i","n","f","o","+","x","m","l">>, TRUE>>,
    <<<<"a","p","p","l","i","c","a","t","i","o","n","/","w","e","b","p","u","s","h","-","o","p","t","i","o","n","s","+","j","s","o","n">>, TRUE>>,
    <<<<"a","p","p","l","i","c","a","t","i","o","n","/","w","s","d","l","+","x","m","l">>, TRUE>>,
    <<<<"a","p","p","l","i","c","a","t","i","o","n","/","w","s","p","o","l","i","c","y","+","x","m","l">>, TRUE>>,
    <<<<"a","p","p","l","i","c","a","t","i","o","n","/","x","-","d","t","b","n","c","x","+","x","m","l">>, TRUE>>,
    <<<<"a","p","p","l","i","c","a","t","i","o","n","/","x","-","d","t","b","o","o","k","+","x","m","l">>, TRUE>>,
    <<<<"a","p","p","l","i","c","a","t","i","o","n","/","x","-","d","t","b","r","e","s","o","u","r","c","e","+","x","m","l">>, TRUE>>,
    <<<<"a","p","p","l","i","c","a","t","i","o","n","/","x","-","h","t","t","p","d","-","p","h","p">>, TRUE>>,
    <<<<"a","p","p","l","i","c","a","t","i","o","n","/","x","-","j","a","v","a","s","c","r","i","p","t">>, TRUE>>,
    <<<<"a","p","p","l","i","c","a","t","i","o","n","/","x","-","n","s","-","p","r","o","x","y","-","a","u","t","o","c","o","n","f","i","g">>, TRUE>>,
    <<<<"a","p","p","l","i","c","a","t","i","o","n","/","x","-","s","h">>, TRUE>>,
    <<<<"a","p","p","l","i","c","a","t","i","o","n","/","x","-","t","a","r">>, TRUE>>,
    <<<<"a","p","p","l","i","c","a","t","i","o","n","/","x","-","v","i","r","t","u","a","l","b","o","x","-","h","d","d">>, TRUE>>,
    <<<<"a","p","p","l","i","c","a","t","i","o","n","/","x","-","v","i","r","t","u","a","l","b","o","x","-","o","v","a">>, TRUE>>,
    <<<<"a","p","p","l","i","c","a","t","i","o","n","/","x","-","v","i","r","t","u","a","l","b","o","x","-","o","v","f">>, TRUE>>,
    <<<<"a","p","p","l","i","c","a","t","i","o","n","/","x","-","v","i","r","t","u","a","l","b","o","x","-","v","b","o","x">>, TRUE>>,
    <<<<"a","p","p","l","i","c","a","t","i","o","n","/","x","-","v","i","r","t","u","a","l","b","o","x","-","v","d","i">>, TRUE>>,
    <<<<"a","p","p","l","i","c","a","t","i","o","n","/","x","-","v","i","r","t","u","a","l","b","o","x","-","v","h","d">>, TRUE>>,
    <<<<"a","p","p","l","i","c","a","t","i","o","n","/","x","-","v","i","r","t","u","a","l","b","o","x","-","v","m","d","k">>, TRUE>>,
    <<<<"a","p","p","l","i","c","a","t","i","o","n","/","x","-","w","e","b","-","a","p","p","-","m","a","n","i","f","e","s","t","+","j","s","o","n">>, TRUE>>,
    <<<<"a","p","p","l","i","c","a","t","i","o","n","/","x","-","w","w","w","-","f","o","r","m","-","u","r","l","e","n","c","o","d","e","d">>, TRUE>>,
    <<<<"a","p","p","l","i","c","a","t","i","o","n","/","x","-","x","l","i","f","f","+","x","m","l">>, TRUE>>,
    <<<<"a","p","p","l","i","c","a","t","i","o","n","/","x","a","c","m","l","+","x","m","l">>, TRUE>>,
    <<<<"a","p","p","l","i","c","a","t","i","o","n","/","x","a","m","l","+","x","m","l">>, TRUE>>,
    <<<<"a","p","p","l","i","c","a","t","i","o","n","/","x","c","a","p","-","a","t","t","+","x","m","l">>, TRUE>>,
    <<<<"a","p","p","l","i","c","a","t","i","o","n","/","x","c","a","p","-","c","a","p","s","+","x","m","l">>, TRUE>>,
    <<<<"a","p","p","l","i","c","a","t","i","o","n","/","x","c","a","p","-","d","i","f","f","+","x","m","l">>, TRUE>>,
    <<<<"a","p","p","l","i","c","a","t","i","o","n","/","x","c","a","p","-","e","l","+","x","m","l">>, TRUE>>,
    <<<<"a","p","p","l","i","c","a","t","i","o","n","/","x","c","a","p","-","e","r","r","o","r","+","x","m","l">>, TRUE>>,
    <<<<"a","p","p","l","i","c","a","t","i","o","n","/","x","c","a","p","-","n","s","+","x","m","l">>, TRUE>>,
    <<<<"a","p","p","l","i","c","a","t","i","o","n","/","x","c","o","n","-","c","o","n","f","e","r","e","n","c","e","-","i","n","f","o","+","x","m","l">>, TRUE>>,
    <<<<"a","p","p","l","i","c","a","t","i","o","n","/","x","c","o","n","-","c","o","n","f","e","r","e","n","c","e","-","i","n","f","o","-","d","i","f","f","+","x","m","l">>, TRUE>>,
    <<<<"a","p","p","l","i","c","a","t","i","o","n","/","x","e","n","c","+","x","m","l">>, TRUE>>,
    <<<<"a","p","p","l","i","c","a","t","i","o","n","/","x","h","t","m","l","+","x","m","l">>, TRUE>>,
    <<<<"a","p","p","l","i","c","a","t","i","o","n","/","x","h","t","m","l","-","v","o","i","c","e","+","x","m","l">>, TRUE>>,
    <<<<"a","p","p","l","i","c","a","t","i","o","n","/","x","l","i","f","f","+","x","m","l">>, TRUE>>,
    <<<<"a","p","p","l","i","c","a","t","i","o","n","/","x","m","l">>, TRUE>>,
    <<<<"a","p","p","l","i","c","a","t","i","o","n","/","x","m","l","-","d","t","d">>, TRUE>>,
    <<<<"a","p","p","l","i","c","a","t","i","o","n","/","x","m","l","-","p","a","t","c","h","+","x","m","l">>, TRUE>>,
    <<<<"a","p","p","l","i","c","a","t","i","o","n","/","x","m","p","p","+","x","m","l">>, TRUE>>,
    <<<<"a","p","p","l","i","c","a","t","i","o","n","/","x","o","p","+","x","m","l">>, TRUE>>,
    <<<<"a","p","p","l","i","c","a","t","i","o","n","/","x","p","r","o","c","+","x","m","l">>, TRUE>>,
    <<<<"a","p","p","l","i","c","a","t","i","o","n","/","x","s","l","t","+","x","m","l">>, TRUE>>,
    <<<<"a","p","p","l","i","c","a","t","i","o","n","/","x","s","p","f","+","x","m","l">>, TRUE>>,
    <<<<"a","p","p","l","i","c","a","t","i","o","n","/","x","v","+","x","m","l">>, TRUE>>,
    <<<<"a","p","p","l","i","c","a","t","i","o","n","/","y","a","n","g","-","d","a","t","a","+","j","s","o","n">>, TRUE>>,
    <<<<"a","p","p","l","i","c","a","t","i","o","n","/","y","a","n","g","-","d","a","t","a","+","x","m","l">>, TRUE>>,
    <<<<"a","p","p","l","i","c","a","t","i","o","n","/","y","a","n","g","-","p","a","t","c","h","+","j","s","o","n">>, TRUE>>,
    <<<<"a","p","p","l","i","c","a","t","i","o","n","/","y","a","n","g","-","p","a","t","c","h","+","x","m","l">>, TRUE>>,
    <<<<"a","p","p","l","i","c","a","t","i","o","n","/","y","i","n","+","x","m","l">>, TRUE>>,
    <<<<"f","o","n","t","/","o","t","f">>, TRUE>>,
    <<<<"f","o","n","t","/","t","t","f">>, TRUE>>,
    <<<<"i","m","a","g","e","/","b","m","p">>, TRUE>>,
    <<<<"i","m","a","g","e","/","s","v","g","+","x","m","l">>, TRUE>>,
    <<<<"i","m","a","g","e","/","v","n","d",".","a","d","o","b","e",".","p","h","o","t","o","s","h","o","p">>, TRUE>>,
    <<<<"i","m","a","g","e","/","x","-","i","c","o","n">>, TRUE>>,
    <<<<"i","m","a","g","e","/","x","-","m","s","-","b","m","p">>, TRUE>>,
    <<<<"m","e","s","s","a","g","e","/","i","m","d","n","+","x","m","l">>, TRUE>>,
    <<<<"m","e","s","s","a","g","e","/","r","f","c","8","2","2">>, TRUE>>,
    <<<<"m","o","d","e","l","/","g","l","t","f","+","j","s","o","n">>, TRUE>>,
    <<<<"m","o","d","e","l","/","g","l","t","f","-","b","i","n","a","r","y">>, TRUE>>,
    <<<<"m","o","d","e","l","/","v","n","d",".","c","o","l","l","a","d","a","+","x","m","l">>, TRUE>>,
    <<<<"m","o","d","e","l","/","v","n","d",".","m","o","m","l","+","x","m","l">>, TRUE>>,
    <<<<"m","o","d","e","l","/","x","3","d","+","x","m","l">>, TRUE>>,
    <<<<"t","e","x","t","/","c","a","c","h","e","-","m","a","n","i","f","e","s","t">>, TRUE>>,
    <<<<"t","e","x","t","/","c","a","l","e","n","d","e","r">>, TRUE>>,
    <<<<"t","e","x","t","/","c","m","d">>, TRUE>>,
    <<<<"t","e","x","t","/","c","s","s">>, TRUE>>,
    <<<<"t","e","x","t","/","c","s","v">>, TRUE>>,
    <<<<"t","e","x","t","/","h","t","m","l">>, TRUE>>,
    <<<<"t","e","x","t","/","j","a","v","a","s","c","r","i","p","t">>, TRUE>>,
    <<<<"t","e","x","t","/","j","s","x">>, TRUE>>,
    <<<<"t","e","x","t","/","l","e","s","s">>, TRUE>>,
    <<<<"t","e","x","t","/","m","a","r","k","d","o","w","n">>, TRUE>>,
    <<<<"t","e","x","t","/","m","d","x">>, TRUE>>,
    <<<<"t","e","x","t","/","n","3">>, TRUE>>,
    <<<<"t","e","x","t","/","p","l","a","i","n">>, TRUE>>,
    <<<<"t","e","x","t","/","r","i","c","h","t","e","x","t">>, TRUE>>,
    <<<<"t","e","x","t","/","r","t","f">>, TRUE>>,
    <<<<"t","e","x","t","/","t","a","b","-","s","e","p","a","r","a","t","e","d","-","v","a","l","u","e","s">>, TRUE>>,
    <<<<"t","e","x","t","/","u","r","i","-","l","i","s","t">>, TRUE>>,
    <<<<"t","e","x","t","/","v","c","a","r","d">>, TRUE>>,
    <<<<"t","e","x","t","/","v","t","t">>, TRUE>>,
    <<<<"t","e","x","t","/","x","-","g","w","t","-","r","p","c">>, TRUE>>,
    <<<<"t","e","x","t","/","x","-","j","q","u","e","r","y","-","t","m","p","l">>, TRUE>>,
    <<<<"t","e","x","t","/","x","-","m","a","r","k","d","o","w","n">>, TRUE>>,
    <<<<"t","e","x","t","/","x","-","o","r","g">>, TRUE>>,
    <<<<"t","e","x","t","/","x","-","p","r","o","c","e","s","s","i","n","g">>, TRUE>>,
    <<<<"t","e","x","t","/","x","-","s","u","s","e","-","y","m","p">>, TRUE>>,
    <<<<"t","e","x","t","/","x","m","l">>, TRUE>>,
    <<<<"t","e","x","t","/","y","a","m","l">>, TRUE>>,
    <<<<"x","-","s","h","a","d","e","r","/","x","-","f","r","a","g","m","e","n","t">>, TRUE>>,
    <<<<"x","-","s","h","a","d","e","r","/","x","-","v","e","r","t","e","x">>, TRUE>>
>>

\* HashMap::from_iter: the pairs are inserted into an empty map in list
\* order, and an insert replaces the value an earlier pair gave the key, so
\* each key ends with the value of the last pair that names it.
last_index_of(list, k) ==
    CHOOSE i \in 1..Len(list) :
        /\ list[i][1] = k
        /\ \A j \in (i + 1)..Len(list) : list[j][1] # k

\* from_iter that stops one pair short of the end of the list.
HashMap_from_iter_short(list) ==
    [k \in {list[i][1] : i \in 1..(Len(list) - 1)} |-> list[last_index_of(list, k)][2]]

HashMap_from_iter(list) ==
    [k \in {list[i][1] : i \in 1..Len(list)} |-> list[last_index_of(list, k)][2]]

\* A get that folds the case of the key it is asked for.
HashMap_get_ignore_case(m, k) ==
    IF to_ascii_lowercase(k) \in DOMAIN m THEN Some(m[to_ascii_lowercase(k)]) ELSE NoOption

\* A get that also matches a key of the map that begins with k.
HashMap_get_prefix(m, k) ==
    IF \E key \in DOMAIN m : Len(k) <= Len(key) /\ SubSeq(key, 1, Len(k)) = k
    THEN Some(TRUE)
    ELSE NoOption

\* HashMap::get: Some(value) for a key of the map, None otherwise.
HashMap_get(m, k) == IF k \in DOMAIN m THEN Some(m[k]) ELSE NoOption

\* The table of a list that carries one more pair, whose value is false.
new_compressible_map_with_false ==
    HashMap_from_iter(Append(compressible_list,
        << <<"t","e","x","t","/","x","-","r","a","w">>, FALSE >>))

\* The table of a list that carries one more pair, whose key is written with
\* capitals and a parameter.
new_compressible_map_with_raw_key ==
    HashMap_from_iter(Append(compressible_list,
        << <<"T","e","x","t","/","H","t","m","l",";"," ","q","=","1">>, TRUE >>))

\* The value bound to compressible_map by the let at lib.rs:25.
new_compressible_map == HashMap_from_iter(compressible_list)

(***************************************************************************)
(* Arguments.                                                              *)
(***************************************************************************)
TextPlain == <<"t","e","x","t","/","p","l","a","i","n">>
TextPlainUpper == <<"T","E","X","T","/","P","L","A","I","N">>
WebAppManifest == <<"a","p","p","l","i","c","a","t","i","o","n","/","x","-","w","e","b","-",
                    "a","p","p","-","m","a","n","i","f","e","s","t","+","j","s","o","n">>
TextPlainMixed == <<"T","e","x","t","/","P","l","a","i","n">>
ImageJpeg == <<"i","m","a","g","e","/","j","p","e","g">>
ImageJpegParam == <<"i","m","a","g","e","/","j","p","e","g",";"," ","p","a","r","a","m","=","1">>
Malformed == <<"a","s",";","l","d","f","k","j","a","s",";","l","d","f","k","j","a",";",
               "l","s","d","f","j">>
CharsetUtf8 == <<";"," ","c","h","a","r","s","e","t","=","u","t","f","-","8">>
TextSlash == <<"t","e","x","t","/">>
TextOnly == <<"t","e","x","t">>
SlashPlain == <<"/","p","l","a","i","n">>
QuotedParams == <<"t","e","x","t","/","p","l","a","i","n",";","c","h","a","r","s","e","t","=",
                  "\"","u","t","f","-","8","\""," ",";"," ","f","o","o","=","b","a","r">>
EscapedParams == <<"t","e","x","t","/","p","l","a","i","n",";"," ","c","h","a","r","s","e","t",
                   "=","U","T","F","-","8",";"," ","q","=","\"","a","\\","\"","b","\"">>

TextStar == <<"t","e","x","t","/","*">>

Keys == {compressible_list[i][1] : i \in 1..Len(compressible_list)}

\* Essences next to a key that are not keys: the wildcards, "text/pla", each
\* key without its last character and each key with one more character.
NearMisses ==
    ({StarStarSource, TextStar, <<"t","e","x","t","/","p","l","a">>}
        \cup {SubSeq(k, 1, Len(k) - 1) : k \in Keys}
        \cup {k \o <<"x">> : k \in Keys}) \ Keys

\* The characters enumerated arguments are made of: a lowercase and an
\* uppercase letter, the delimiters of the grammar, a control character
\* and a two-byte non-ASCII character.
Alphabet == {<<"a">>, <<"A">>, <<"/">>, <<";">>, <<" ">>, <<"=">>, <<"+">>, <<"\"">>,
             <<HTab>>, <<LeadByte, ContinuationByte>>}

RECURSIVE StringsUpTo(_)
StringsUpTo(n) ==
    IF n = 0 THEN {<<>>}
    ELSE LET shorter == StringsUpTo(n - 1)
         IN  shorter \cup {s \o c : s \in shorter, c \in Alphabet}

LongString == [i \in 1..LongLen |-> "a"]

Examples == {TextPlain, TextPlainUpper, TextPlainMixed, WebAppManifest, ImageJpeg, ImageJpegParam, Malformed,
             TextSlash, TextOnly, SlashPlain, StarStarSource, QuotedParams, EscapedParams,
             LongString, TextSlash \o LongString, TextPlain \o <<";">> \o LongString}

Inputs ==
    StringsUpTo(MaxLen) \cup Examples \cup Keys
        \cup {k \o CharsetUtf8 : k \in Keys}
        \cup {to_ascii_uppercase(k) : k \in Keys}
        \cup NearMisses

\* The arguments of the calls one process makes.
ProcessInputs == {TextPlain, TextPlainUpper, TextPlain \o CharsetUtf8, WebAppManifest,
                  ImageJpegParam, Malformed, <<>>, TextSlash}

(***************************************************************************)
(* The program: one process calling is_compressible, one call at a time.   *)
(***************************************************************************)
NoParse == [tag |-> "None", value |-> None, error |-> None]

NoFrame ==
    /\ content_type = <<>>
    /\ compressible_map = <<>>
    /\ parsed = NoParse
    /\ found = NoOption
    /\ result = NoOption

Init ==
    /\ pc = "idle"
    /\ NoFrame
    /\ calls = 0
    /\ builds = 0
    /\ lookups = 0
    /\ history = <<>>
    /\ threads = <<>>
    /\ literal = <<>>

\* The state at the entry of one call whose argument is any of Inputs.
InitCall ==
    /\ pc = "entry"
    /\ content_type \in Inputs
    /\ compressible_map = <<>>
    /\ parsed = NoParse
    /\ found = NoOption
    /\ result = NoOption
    /\ calls = 1
    /\ builds = 0
    /\ lookups = 0
    /\ history = <<>>
    /\ threads = <<>>
    /\ literal = <<>>

\* lib.rs:23: the caller passes an owned String.
Call(s) ==
    /\ pc = "idle"
    /\ calls < MaxCalls
    /\ pc' = "entry"
    /\ content_type' = s
    /\ calls' = calls + 1
    /\ lookups' = 0
    /\ UNCHANGED <<compressible_map, parsed, found, result, builds, history, threads, literal>>

\* Construct from a list that the first construction consumes: later
\* calls get an empty map.
ConstructConsumed ==
    /\ pc = "entry"
    /\ compressible_map' = IF builds = 0 THEN new_compressible_map ELSE <<>>
    /\ builds' = builds + 1
    /\ pc' = "built"
    /\ UNCHANGED <<content_type, parsed, found, result, calls, lookups, history, threads, literal>>

\* lib.rs:25-857: let compressible_map = HashMap::from_iter(IntoIter::new([...]))
Construct ==
    /\ pc = "entry"
    /\ compressible_map' = new_compressible_map
    /\ builds' = builds + 1
    /\ pc' = "built"
    /\ UNCHANGED <<content_type, parsed, found, result, calls, lookups, history, threads, literal>>

\* Parse with the result unwrapped instead of matched: an Err panics.
ParseUnwrap ==
    /\ pc = "built"
    /\ parsed' = parse(content_type)
    /\ pc' = IF parsed'.tag \in {"Panic", "Err"} THEN "panicked" ELSE "parsed"
    /\ UNCHANGED <<content_type, compressible_map, found, result, calls, builds, lookups, history,
                   threads, literal>>

\* lib.rs:859: content_type.parse::<Mime>()
Parse ==
    /\ pc = "built"
    /\ parsed' = parse(content_type)
    /\ pc' = IF parsed'.tag = "Panic" THEN "panicked" ELSE "parsed"
    /\ UNCHANGED <<content_type, compressible_map, found, result, calls, builds, lookups, history,
                   threads, literal>>

\* Lookup by the whole source string of the Mime, parameters included.
LookupWholeSource ==
    /\ pc = "parsed"
    /\ parsed.tag = "Ok"
    /\ found' = HashMap_get(compressible_map, parsed.value.source)
    /\ lookups' = lookups + 1
    /\ pc' = "looked"
    /\ UNCHANGED <<content_type, compressible_map, parsed, result, calls, builds, history, threads, literal>>

\* Lookup by the argument as the caller wrote it, not by the parsed essence.
LookupRawArgument ==
    /\ pc = "parsed"
    /\ parsed.tag = "Ok"
    /\ found' = HashMap_get(compressible_map, content_type)
    /\ lookups' = lookups + 1
    /\ pc' = "looked"
    /\ UNCHANGED <<content_type, compressible_map, parsed, result, calls, builds, history, threads, literal>>

\* lib.rs:859-860: on Ok, compressible_map.get(content_type.essence_str())
Lookup ==
    /\ pc = "parsed"
    /\ parsed.tag = "Ok"
    /\ LET m == parsed.value IN
       IF slice_ok(m.source, 0, essence_end(m))
       THEN /\ found' = HashMap_get(compressible_map, essence_str(m))
            /\ lookups' = lookups + 1
            /\ pc' = "looked"
       ELSE /\ pc' = "panicked"
            /\ UNCHANGED <<found, lookups>>
    /\ UNCHANGED <<content_type, compressible_map, parsed, result, calls, builds, history, threads, literal>>

\* ReturnStored with the default of the other arms in place of the value.
ReturnStoredDefault ==
    /\ pc = "looked"
    /\ found # NoOption
    /\ result' = Some(FALSE)
    /\ pc' = "returned"
    /\ UNCHANGED <<content_type, compressible_map, parsed, found, calls, builds, lookups, history,
                   threads, literal>>

\* lib.rs:860-861: Some(compressible) => compressible.to_owned()
ReturnStored ==
    /\ pc = "looked"
    /\ found # NoOption
    /\ result' = Some(found[1])
    /\ pc' = "returned"
    /\ UNCHANGED <<content_type, compressible_map, parsed, found, calls, builds, lookups, history,
                   threads, literal>>

\* ReturnAbsent with true as the default for an unknown essence.
ReturnAbsentTrue ==
    /\ pc = "looked"
    /\ found = NoOption
    /\ result' = Some(TRUE)
    /\ pc' = "returned"
    /\ UNCHANGED <<content_type, compressible_map, parsed, found, calls, builds, lookups, history,
                   threads, literal>>

\* lib.rs:862-864: None => false
ReturnAbsent ==
    /\ pc = "looked"
    /\ found = NoOption
    /\ result' = Some(FALSE)
    /\ pc' = "returned"
    /\ UNCHANGED <<content_type, compressible_map, parsed, found, calls, builds, lookups, history,
                   threads, literal>>

\* ReturnParseErr with true as the default for an unparsable argument.
ReturnParseErrTrue ==
    /\ pc = "parsed"
    /\ parsed.tag = "Err"
    /\ result' = Some(TRUE)
    /\ pc' = "returned"
    /\ UNCHANGED <<content_type, compressible_map, parsed, found, calls, builds, lookups, history,
                   threads, literal>>

\* ReturnParseErr that first looks the raw argument up and throws the answer away.
ReturnParseErrAfterLookup ==
    /\ pc = "parsed"
    /\ parsed.tag = "Err"
    /\ found' = HashMap_get(compressible_map, content_type)
    /\ lookups' = lookups + 1
    /\ result' = Some(FALSE)
    /\ pc' = "returned"
    /\ UNCHANGED <<content_type, compressible_map, parsed, calls, builds, history,
                   threads, literal>>

\* lib.rs:865-867: Err(_) => false
ReturnParseErr ==
    /\ pc = "parsed"
    /\ parsed.tag = "Err"
    /\ result' = Some(FALSE)
    /\ pc' = "returned"
    /\ UNCHANGED <<content_type, compressible_map, parsed, found, calls, builds, lookups, history,
                   threads, literal>>

\* Exit that leaves the table behind, as a cache kept in a static would.
ExitKeepTable ==
    /\ pc = "returned"
    /\ history' = Append(history, <<content_type, result[1]>>)
    /\ pc' = "idle"
    /\ content_type' = <<>>
    /\ parsed' = NoParse
    /\ found' = NoOption
    /\ result' = NoOption
    /\ UNCHANGED <<compressible_map, calls, builds, lookups, threads, literal>>

\* lib.rs:868: the closing brace; the locals are dropped and the caller has
\* the boolean.
Exit ==
    /\ pc = "returned"
    /\ history' = Append(history, <<content_type, result[1]>>)
    /\ pc' = "idle"
    /\ content_type' = <<>>
    /\ compressible_map' = <<>>
    /\ parsed' = NoParse
    /\ found' = NoOption
    /\ result' = NoOption
    /\ UNCHANGED <<calls, builds, lookups, threads, literal>>

\* The steps of one call.
Step ==
    \/ Construct
    \/ Parse
    \/ Lookup
    \/ ReturnStored
    \/ ReturnAbsent
    \/ ReturnParseErr
    \/ Exit

Next ==
    \/ \E s \in ProcessInputs : Call(s)
    \/ Step

\* A process that makes up to MaxCalls calls, one after the other.
Spec == Init /\ [][Next]_vars

\* One call, on any argument of Inputs.
SpecCall == InitCall /\ [][Step]_vars

(***************************************************************************)
(* Several threads inside is_compressible at once.  Every call has its own *)
(* frame, and so its own compressible_map (a let binding, lib.rs:25).      *)
(* HashMap::from_iter starts from an empty map and inserts the pairs in    *)
(* order; the interleaving lets other threads run between InsertSteps      *)
(* consecutive runs of insertions.                                         *)
(***************************************************************************)
Threads == 1..NumThreads

ThreadInputs == {TextPlain, Malformed}

main == <<pc, content_type, compressible_map, parsed, found, result, calls, builds, lookups, history>>

\* The frame of a thread that has just entered is_compressible(s).
EntryFrame(s) ==
    [pc |-> "entry", content_type |-> s, compressible_map |-> <<>>, steps |-> 0,
     parsed |-> NoParse, found |-> NoOption, result |-> NoOption]

\* The number of pairs inserted once j of the InsertSteps runs are done.
InsertedAfter(j) ==
    IF j >= InsertSteps THEN Len(compressible_list)
    ELSE (j * Len(compressible_list)) \div InsertSteps

\* HashMap::extend with the pairs lo..hi of list: each is inserted in order,
\* a later value for a key replacing an earlier one.
HashMap_extend(m, list, lo, hi) ==
    LET last(k) == CHOOSE i \in lo..hi :
                       /\ list[i][1] = k
                       /\ \A j \in (i + 1)..hi : list[j][1] # k
        added == [k \in {list[i][1] : i \in lo..hi} |-> list[last(k)][2]]
    IN  added @@ m

InitThreads ==
    /\ pc = "idle"
    /\ NoFrame
    /\ calls = 0
    /\ builds = 0
    /\ lookups = 0
    /\ history = <<>>
    /\ threads \in [Threads -> {EntryFrame(s) : s \in ThreadInputs}]
    /\ literal = <<>>

\* lib.rs:25: HashMap::from_iter creates the empty map of this call.
TBegin(t) ==
    /\ threads[t].pc = "entry"
    /\ threads' = [threads EXCEPT ![t].pc = "building", ![t].compressible_map = <<>>, ![t].steps = 0]
    /\ UNCHANGED <<main, literal>>

\* lib.rs:25-857: HashMap::from_iter inserts the next run of pairs.
TInsert(t) ==
    /\ threads[t].pc = "building"
    /\ LET f == threads[t] IN
       threads' = [threads EXCEPT
           ![t].compressible_map =
               HashMap_extend(f.compressible_map, compressible_list,
                              InsertedAfter(f.steps) + 1, InsertedAfter(f.steps + 1)),
           ![t].steps = f.steps + 1,
           ![t].pc = IF f.steps + 1 >= InsertSteps THEN "built" ELSE "building"]
    /\ UNCHANGED <<main, literal>>

\* lib.rs:859: content_type.parse::<Mime>()
TParse(t) ==
    /\ threads[t].pc = "built"
    /\ LET r == parse(threads[t].content_type) IN
       threads' = [threads EXCEPT
           ![t].parsed = r,
           ![t].pc = IF r.tag = "Panic" THEN "panicked" ELSE "parsed"]
    /\ UNCHANGED <<main, literal>>

\* TLookup reading one table shared by all threads (the table of thread 1)
\* instead of the table of the call itself.
TLookupShared(t) ==
    /\ threads[t].pc = "parsed"
    /\ threads[t].parsed.tag = "Ok"
    /\ LET m == threads[t].parsed.value IN
       threads' = [threads EXCEPT
           ![t].found = HashMap_get(threads[1].compressible_map, essence_str(m)),
           ![t].pc = "looked"]
    /\ UNCHANGED <<main, literal>>

\* lib.rs:859-860: on Ok, compressible_map.get(content_type.essence_str())
TLookup(t) ==
    /\ threads[t].pc = "parsed"
    /\ threads[t].parsed.tag = "Ok"
    /\ LET m == threads[t].parsed.value IN
       threads' = [threads EXCEPT
           ![t].found = IF slice_ok(m.source, 0, essence_end(m))
                        THEN HashMap_get(threads[t].compressible_map, essence_str(m))
                        ELSE NoOption,
           ![t].pc = IF slice_ok(m.source, 0, essence_end(m)) THEN "looked" ELSE "panicked"]
    /\ UNCHANGED <<main, literal>>

\* lib.rs:860-867: the three arms that give the call its value.
TReturn(t) ==
    /\ \/ threads[t].pc = "looked"
       \/ threads[t].pc = "parsed" /\ threads[t].parsed.tag = "Err"
    /\ LET f == threads[t] IN
       threads' = [threads EXCEPT
           ![t].result = IF f.pc = "looked" /\ f.found # NoOption
                         THEN Some(f.found[1])
                         ELSE Some(FALSE),
           ![t].pc = "returned"]
    /\ UNCHANGED <<main, literal>>

\* lib.rs:868: the locals of the call are dropped; the caller keeps the
\* argument it passed and the boolean it got.
TExit(t) ==
    /\ threads[t].pc = "returned"
    /\ threads' = [threads EXCEPT
           ![t].pc = "done",
           ![t].compressible_map = <<>>,
           ![t].steps = 0,
           ![t].parsed = NoParse,
           ![t].found = NoOption]
    /\ UNCHANGED <<main, literal>>

ThreadStep(t) ==
    \/ TBegin(t)
    \/ TInsert(t)
    \/ TParse(t)
    \/ TLookup(t)
    \/ TReturn(t)
    \/ TExit(t)

NextThreads == \E t \in Threads : ThreadStep(t)

\* NumThreads concurrent calls, interleaved in every order.
SpecThreads == InitThreads /\ [][NextThreads]_vars

(***************************************************************************)
(* HashMap::from_iter on its own, applied to any short list of pairs over  *)
(* two keys: what the construction at lib.rs:25 does with a list other     *)
(* than the one the source has today.                                      *)
(***************************************************************************)
RECURSIVE ListsUpTo(_)
ListsUpTo(n) ==
    IF n = 0 THEN {<<>>}
    ELSE LET shorter == ListsUpTo(n - 1)
         IN  shorter \cup {Append(l, <<k, v>>) : l \in shorter, k \in {TextPlain, ImageJpeg}, v \in BOOLEAN}

InitFromIter ==
    /\ pc = "entry"
    /\ NoFrame
    /\ calls = 1
    /\ builds = 0
    /\ lookups = 0
    /\ history = <<>>
    /\ threads = <<>>
    /\ literal \in ListsUpTo(MaxList)

\* lib.rs:25: HashMap::from_iter(IntoIter::new(literal))
ConstructFrom ==
    /\ pc = "entry"
    /\ compressible_map' = HashMap_from_iter(literal)
    /\ builds' = builds + 1
    /\ pc' = "built"
    /\ UNCHANGED <<content_type, parsed, found, result, calls, lookups, history, threads, literal>>

\* One construction, from any list of ListsUpTo(MaxList).
SpecFromIter == InitFromIter /\ [][ConstructFrom]_vars

(***************************************************************************)
(* The classifier (lib.rs:859-867) behind a parser that hands back any     *)
(* essence: the call has built its table and the parser has answered Ok    *)
(* with an essence of HandedBack, lowercase or not.                        *)
(***************************************************************************)
HandedBack ==
    Keys \cup {to_ascii_uppercase(k) : k \in Keys} \cup {TextPlainMixed, ImageJpeg} \cup NearMisses

\* The Mime of an essence handed back as written, without parameters.
MimeOf(essence) ==
    Mime(essence, (CHOOSE i \in 1..Len(essence) : essence[i] = "/") - 1, NoOption, ParamSourceNone)

InitAnyParser ==
    /\ pc = "parsed"
    /\ content_type \in HandedBack
    /\ compressible_map = new_compressible_map
    /\ parsed = Ok(MimeOf(content_type))
    /\ found = NoOption
    /\ result = NoOption
    /\ calls = 1
    /\ builds = 1
    /\ lookups = 0
    /\ history = <<>>
    /\ threads = <<>>
    /\ literal = <<>>

NextAnyParser ==
    \/ Lookup
    \/ ReturnStored
    \/ ReturnAbsent
    \/ Exit

\* The rest of one call after the parser has handed back an essence.
SpecAnyParser == InitAnyParser /\ [][NextAnyParser]_vars

(***************************************************************************)
(* Properties.                                                             *)
(***************************************************************************)
\* The value the literal list gives key k (the list names no key twice).
StoredValue(k) == compressible_list[last_index_of(compressible_list, k)][2]

\* The essence the parser handed back to the call in progress.
Essence == essence_str(parsed.value)

Returned == pc = "returned"

\* a and b differ at most in the case of their ASCII letters.
SameUpToCase(a, b) ==
    /\ Len(a) = Len(b)
    /\ \A i \in 1..Len(a) : a[i] = b[i] \/ byte_to_ascii_uppercase(a[i]) = byte_to_ascii_uppercase(b[i])

\* The position of pc in the order of the steps of a call.
Rank(p) ==
    CASE p = "entry" -> 0
      [] p = "built" -> 1
      [] p = "parsed" -> 2
      [] p = "looked" -> 3
      [] p = "returned" -> 4
      [] p = "idle" -> 5
      [] OTHER -> 6

\* C1: is_compressible is total: whatever the argument (empty, without '/',
\* with a control or a non-ASCII character, very long), the call never
\* panics, the parser hands back Ok or Err, a call in progress always has a
\* next step, every step moves it on towards its end (so it ends within
\* five steps), and what it returns is true or false.
C1_Totality ==
    /\ [](pc # "panicked")
    /\ [](pc = "built" => parse(content_type).tag \in {"Ok", "Err"})
    /\ [](pc \in {"entry", "parsed", "looked", "returned"} =>
             ENABLED (Construct \/ Lookup \/ ReturnStored \/ ReturnAbsent \/ ReturnParseErr \/ Exit))
    /\ [](Returned => result \in {Some(TRUE), Some(FALSE)})
    /\ [](pc = "idle" => Len(history) = 1 /\ history[1][2] \in BOOLEAN)
    /\ [][Rank(pc') > Rank(pc)]_vars

\* A call on a control character has returned false.
C1_Witness ==
    /\ pc = "idle"
    /\ history = << << <<HTab>>, FALSE >> >>

\* C2: whenever the parser reports failure (as for "as;ldfkjas;ldfkja;lsdfj",
\* the empty string, a string without slash and a string without type), the
\* call does not panic and returns false; a string without subtype returns
\* false as well.
C2_ParseFailureIsFalse ==
    /\ parsed.tag = "Err" => pc \in {"parsed", "returned"}
    /\ Returned /\ parsed.tag = "Err" => result = Some(FALSE)
    /\ pc \in {"parsed", "returned"} /\ content_type \in {Malformed, <<>>, TextOnly, SlashPlain}
         => parsed.tag = "Err"
    /\ Returned /\ content_type = TextSlash => result = Some(FALSE)

\* The call on "as;ldfkjas;ldfkja;lsdfj" has returned false after a parse failure.
C2_Witness ==
    /\ Returned
    /\ content_type = Malformed
    /\ parsed.tag = "Err"
    /\ result = Some(FALSE)

\* C3: when the argument parses and its essence is a key of the table, the
\* call returns the boolean the literal list stores for that key;
\* "text/plain" and "application/x-web-app-manifest+json" return true.
C3_StoredValueReturned ==
    Returned =>
        /\ parsed.tag = "Ok" /\ Essence \in Keys => result = Some(StoredValue(Essence))
        /\ content_type \in {TextPlain, WebAppManifest} => result = Some(TRUE)

\* The call on "application/x-web-app-manifest+json" has returned true.
C3_Witness ==
    /\ Returned
    /\ content_type = WebAppManifest
    /\ parsed.tag = "Ok"
    /\ Essence = WebAppManifest
    /\ result = Some(TRUE)

\* C4: when the argument parses and its essence is not a key of the table,
\* the call returns false; "image/jpeg; param=1" has the essence
\* "image/jpeg", which is not a key, and returns false.
C4_UnknownEssenceIsFalse ==
    /\ Returned /\ parsed.tag = "Ok" /\ Essence \notin Keys => result = Some(FALSE)
    /\ Returned /\ content_type = ImageJpegParam =>
           parsed.tag = "Ok" /\ Essence = ImageJpeg /\ ImageJpeg \notin Keys /\ result = Some(FALSE)

\* The call on "image/jpeg; param=1" has returned false after a lookup that missed.
C4_Witness ==
    /\ Returned
    /\ content_type = ImageJpegParam
    /\ parsed.tag = "Ok"
    /\ lookups = 1
    /\ found = NoOption
    /\ result = Some(FALSE)

\* C5: for every key k of the table, the call on k followed by
\* "; charset=utf-8" returns the value stored for k.
C5_ParameterInsensitive ==
    Returned =>
        \A k \in Keys : content_type = k \o CharsetUtf8 => result = Some(StoredValue(k))

\* The call on "text/plain; charset=utf-8" has returned true.
C5_Witness ==
    /\ Returned
    /\ content_type = TextPlain \o CharsetUtf8
    /\ parsed.tag = "Ok"
    /\ parsed.value.params.kind = "Utf8"
    /\ result = Some(TRUE)

\* C6: an argument that differs from a key k of the table only in letter case
\* (k itself, k in capitals, "Text/Plain") returns the value stored for k, so
\* "TEXT/PLAIN" returns what "text/plain" returns.
C6_CaseInsensitive ==
    Returned =>
        \A k \in Keys : SameUpToCase(content_type, k) => result = Some(StoredValue(k))

\* The call on "TEXT/PLAIN" has returned true, the value stored for "text/plain".
C6_Witness ==
    /\ Returned
    /\ content_type = TextPlainUpper
    /\ Essence = TextPlain
    /\ result = Some(StoredValue(TextPlain))

\* C7: two completed calls of one process with the same argument returned
\* the same boolean, whatever calls came between them.
C7_Deterministic ==
    \A i, j \in 1..Len(history) :
        history[i][1] = history[j][1] => history[i][2] = history[j][2]

\* Two calls on "text/plain" with a call on another argument between them.
C7_Witness ==
    /\ Len(history) = 3
    /\ history[1][1] = TextPlain
    /\ history[2][1] = Malformed
    /\ history[3][1] = TextPlain
    /\ history[1][2] = history[3][2]

\* C8: a call has no side effects: once it has returned, nothing it made (the
\* table, the parsed value, the lookup result) is left in the process; the
\* state between calls is the state before the first call.
C8_NoSideEffects ==
    pc = "idle" => NoFrame

\* A call has completed and the process holds nothing of it.
C8_Witness ==
    /\ pc = "idle"
    /\ Len(history) >= 1
    /\ builds >= 1
    /\ NoFrame

\* C9: the table is constructed once per process and no later call
\* constructs it again.
C9_ConstructedOnce ==
    builds <= 1

\* C10: the table a call consults is never mutated: from its construction
\* to the end of the call, and so at the moment of the lookup, its set of
\* (essence, value) pairs is the set of pairs of the literal list.
C10_TableIsLiteralList ==
    pc \in {"built", "parsed", "looked", "returned"} =>
        {<<k, compressible_map[k]>> : k \in DOMAIN compressible_map}
            = {compressible_list[i] : i \in 1..Len(compressible_list)}

\* The second call of a process has done its lookup.
C10_Witness ==
    /\ pc = "looked"
    /\ calls = 2
    /\ lookups = 1
    /\ DOMAIN compressible_map = Keys

\* What is_compressible(s) returns by lib.rs:859-867, read off the literal list.
AloneResult(s) ==
    LET p == parse(s) IN
    IF p.tag = "Ok" /\ essence_str(p.value) \in Keys
    THEN StoredValue(essence_str(p.value))
    ELSE FALSE

\* C11: under every interleaving of concurrent calls, a call that is about
\* to look up, or has looked up, holds a completely built table (all pairs of
\* the list inserted); while a call is between the end of its construction
\* and its lookup no step of any thread writes its table; and every call
\* returns what the same call returns when run alone.
C11_ConcurrentCalls ==
    /\ [](\A t \in Threads :
            threads[t].pc \in {"built", "parsed", "looked", "returned"} =>
                /\ threads[t].steps = InsertSteps
                /\ threads[t].compressible_map = new_compressible_map)
    /\ [](\A t \in Threads :
            threads[t].pc \in {"returned", "done"} =>
                threads[t].result = Some(AloneResult(threads[t].content_type)))
    /\ [](\A t \in Threads : threads[t].pc # "panicked")
    /\ [][\A t \in Threads :
            threads[t].pc \in {"built", "parsed"} =>
                threads'[t].compressible_map = threads[t].compressible_map]_vars

\* Thread 2 has looked up "text/plain" and found it while thread 1 holds a
\* partially built table.
C11_Witness ==
    /\ threads[1].pc = "building"
    /\ threads[1].steps = 1
    /\ DOMAIN threads[1].compressible_map # Keys
    /\ threads[2].pc = "returned"
    /\ threads[2].content_type = TextPlain
    /\ threads[2].result = Some(TRUE)

\* The list names one key twice with different values.
HasConflictingDuplicate(list) ==
    \E i, j \in 1..Len(list) : list[i][1] = list[j][1] /\ list[i][2] # list[j][2]

NoDuplicateKeys ==
    \A i, j \in 1..Len(compressible_list) :
        compressible_list[i][1] = compressible_list[j][1] => i = j

\* C13: the literal list names no essence more than once, and the map a
\* call has built has as many keys as the list has pairs.
C13_NoDuplicateKeys ==
    pc \in {"built", "parsed", "looked", "returned"} =>
        /\ NoDuplicateKeys
        /\ Cardinality(DOMAIN compressible_map) = Len(compressible_list)

\* A call has built its table, with one key for each of the pairs of the list.
C13_Witness ==
    /\ pc = "built"
    /\ builds = 1
    /\ Cardinality(DOMAIN compressible_map) = Len(compressible_list)
    /\ Len(compressible_list) > 1

\* C14: every entry of the table a call has built stores true, so the call
\* returns true exactly when the argument parses and its essence is a key of
\* the table.
C14_AllowList ==
    /\ pc \in {"built", "parsed", "looked", "returned"} =>
           \A k \in DOMAIN compressible_map : compressible_map[k] = TRUE
    /\ Returned =>
           (result = Some(TRUE) <=> (parsed.tag = "Ok" /\ Essence \in Keys))

\* The call on "image/jpeg; param=1" parsed, missed the table and returned
\* false, while the table holds "text/plain" with true.
C14_Witness ==
    /\ Returned
    /\ content_type = ImageJpegParam
    /\ parsed.tag = "Ok"
    /\ Essence \notin Keys
    /\ result = Some(FALSE)
    /\ compressible_map[TextPlain] = TRUE

\* k is a normalized essence: no capital letter, exactly one '/', with a
\* non-empty type before it and a non-empty subtype after it, and no ';',
\* no whitespace and no '*'.
Normalized(k) ==
    /\ \A i \in 1..Len(k) : byte_to_ascii_lowercase(k[i]) = k[i]
    /\ Cardinality({i \in 1..Len(k) : k[i] = "/"}) = 1
    /\ k[1] # "/"
    /\ k[Len(k)] # "/"
    /\ \A i \in 1..Len(k) : k[i] \notin {";", " ", HTab, "*", "="}

\* The keys of the literal list that are normalized essences.
NormalizedKeys == {k \in Keys : Normalized(k)}

\* C15: every key of the table a call has built is a normalized essence.
C15_KeysNormalized ==
    pc \in {"built", "parsed", "looked", "returned"} =>
        DOMAIN compressible_map \subseteq NormalizedKeys

\* A call has built its table; "application/x-web-app-manifest+json" is one
\* of its keys, and "TEXT/PLAIN" would not count as normalized.
C15_Witness ==
    /\ pc = "built"
    /\ WebAppManifest \in DOMAIN compressible_map
    /\ Normalized(WebAppManifest)
    /\ ~Normalized(TextPlainUpper)
    /\ ~Normalized(ImageJpegParam)
    /\ ~Normalized(TextSlash)

\* C16: the result depends on the argument only through the outcome of the
\* parser: two completed calls whose arguments both fail to parse returned
\* the same boolean (false), and two completed calls whose arguments parse
\* to the same essence returned the same boolean, whatever the parameters
\* and the spelling of the arguments.
C16_ResultDependsOnParseOutcome ==
    pc = "idle" =>
    \A i, j \in 1..Len(history) :
        LET p == parse(history[i][1])
            q == parse(history[j][1])
        IN  /\ p.tag = "Err" /\ q.tag = "Err" =>
                   history[i][2] = FALSE /\ history[j][2] = FALSE
            /\ p.tag = "Ok" /\ q.tag = "Ok" /\ essence_str(p.value) = essence_str(q.value) =>
                   history[i][2] = history[j][2]

\* "text/plain; charset=utf-8", "TEXT/PLAIN" and the empty string, then the
\* malformed string: three different arguments, two parse outcomes.
C16_Witness ==
    /\ Len(history) = 3
    /\ history[1] = <<TextPlain \o CharsetUtf8, TRUE>>
    /\ history[2] = <<TextPlainUpper, TRUE>>
    /\ history[3] = << <<>>, FALSE >>

\* C17: the lookup is case-sensitive and the classifier folds no case: when
\* the parser hands back an essence that is not all lowercase, the lookup
\* misses and the call returns false, even though the lowercase form of that
\* essence is a key of the table.
C17_LookupCaseSensitive ==
    /\ pc \in {"looked", "returned"} /\ to_ascii_lowercase(Essence) # Essence => found = NoOption
    /\ Returned /\ to_ascii_lowercase(Essence) # Essence => result = Some(FALSE)
    /\ Returned /\ Essence \in Keys => result = Some(StoredValue(Essence))

\* The parser handed back "Text/Plain", whose lowercase form is a key; the
\* lookup missed and the call returned false.
C17_Witness ==
    /\ Returned
    /\ Essence = TextPlainMixed
    /\ to_ascii_lowercase(Essence) \in Keys
    /\ lookups = 1
    /\ found = NoOption
    /\ result = Some(FALSE)

\* C18: the lookup matches whole keys only: an argument that parses to a
\* wildcard ("*/*", "text/*"), to a key without its last character
\* ("text/plai") or to a key with one more character ("text/plainx"), and
\* that is not itself a key, is not found and the call returns false.
C18_ExactMatchOnly ==
    pc \in {"looked", "returned"} /\ content_type \in NearMisses =>
        /\ parsed.tag = "Ok"
        /\ Essence = content_type
        /\ found = NoOption
        /\ Returned => result = Some(FALSE)

\* The call on "text/plainx" has parsed, missed and returned false.
C18_Witness ==
    /\ Returned
    /\ content_type = TextPlain \o <<"x">>
    /\ content_type \in NearMisses
    /\ Essence = content_type
    /\ found = NoOption
    /\ result = Some(FALSE)

\* C19: within one call the steps come in the order parse, lookup, return:
\* no lookup happens before the parse has answered, at most one lookup
\* happens, it happens only after the parse answered Ok, and a call whose
\* parse failed returns false without any lookup.
C19_ParseLookupReturn ==
    /\ [](lookups <= 1)
    /\ [](pc \in {"entry", "built", "parsed"} => lookups = 0 /\ found = NoOption)
    /\ [](pc \in {"entry", "built"} => parsed = NoParse)
    /\ [](pc \in {"looked", "returned"} /\ lookups = 1 => parsed.tag = "Ok")
    /\ [](Returned /\ parsed.tag = "Ok" => lookups = 1)
    /\ [](Returned /\ parsed.tag = "Err" => lookups = 0 /\ result = Some(FALSE))
    /\ [][pc' = "parsed" => pc = "built"]_vars
    /\ [][pc' = "looked" => pc = "parsed" /\ parsed.tag = "Ok" /\ lookups' = lookups + 1]_vars
    /\ [][pc' = "returned" =>
            \/ pc = "looked" /\ lookups' = lookups
            \/ pc = "parsed" /\ parsed.tag = "Err" /\ lookups' = lookups]_vars

\* The call on "as;ldfkjas;ldfkja;lsdfj" has returned: the parse failed, no lookup was
\* made and the result is false.
C19_Witness ==
    /\ Returned
    /\ content_type = Malformed
    /\ parsed.tag = "Err"
    /\ lookups = 0
    /\ found = NoOption
    /\ result = Some(FALSE)

\* C20: the table has no dead entry: every key, passed as the argument,
\* parses Ok, has itself as its essence, is found by the lookup, and the call
\* returns the value stored for it.
C20_NoDeadEntry ==
    content_type \in Keys =>
        /\ pc \in {"parsed", "looked", "returned"} => parsed.tag = "Ok" /\ Essence = content_type
        /\ pc \in {"looked", "returned"} => found = Some(StoredValue(content_type))
        /\ Returned => result = Some(StoredValue(content_type))

\* The call on the key "application/manifest+json" has returned the value
\* stored for it.
C20_Witness ==
    /\ Returned
    /\ content_type = WebAppManifest
    /\ content_type \in Keys
    /\ Essence = content_type
    /\ found = Some(TRUE)
    /\ result = Some(StoredValue(content_type))

====
